---- MODULE Spec2Model ----
(***************************************************************************)
(* Model of the capture state machine of v4l2.c (tcl-v4l2): one open       *)
(* device session (V4L2C), the kernel/process side it talks to, and the    *)
(* operations start, stop, the readiness file handler, image, parameters   *)
(* (the controls of the kernel, frame-size and frame-rate) and close.      *)
(***************************************************************************)
EXTENDS Integers, Sequences, FiniteSets, TLC

VARIABLES
    v4l2c,      \* the V4L2C session structure
    dev,        \* kernel and process side: handler, streaming, queued buffers, mappings
    kern,       \* the device's answers to S_FMT, G/S_PARM and REQBUFS
    ops,        \* device and notifier operations issued by the last command
    ret,        \* the last command, its Tcl result code and message (and, of a
                \* parameters command, its arguments and the write that failed)
    alive       \* the session is in the table of active sessions

vars == <<v4l2c, dev, kern, ops, ret, alive>>

----------------------------------------------------------------------------
(* Program constants *)

\* sizeof (vbufs) / sizeof (vbufs[0])
NVBUFS == 16

V4L2_PIX_FMT_RGB24 == 859981650
V4L2_PIX_FMT_BGR24 == 861030210
V4L2_PIX_FMT_YUYV == 1448695129
V4L2_PIX_FMT_YVYU == 1431918169
V4L2_PIX_FMT_MJPEG == 1196444237
V4L2_PIX_FMT_Y16 == 540422489
V4L2_PIX_FMT_Y10 == 540029273
V4L2_PIX_FMT_GREY == 1497715271
V4L2_PIX_FMT_RGB32 == 876758866
V4L2_PIX_FMT_BGR32 == 877807426
\* a pixel format of no catalog, as a driver may write back from S_FMT
V4L2_PIX_FMT_NV12 == 842094158

\* build option: MJPEG support compiled in
USE_MJPEG == FALSE

FormatsNormal ==
    <<V4L2_PIX_FMT_RGB24, V4L2_PIX_FMT_BGR24, V4L2_PIX_FMT_YUYV, V4L2_PIX_FMT_YVYU>>
    \o (IF USE_MJPEG THEN <<V4L2_PIX_FMT_MJPEG>> ELSE <<>>)
    \o <<V4L2_PIX_FMT_Y16, V4L2_PIX_FMT_Y10, V4L2_PIX_FMT_GREY>>

FormatsLoop ==
    <<V4L2_PIX_FMT_RGB32, V4L2_PIX_FMT_BGR32, V4L2_PIX_FMT_RGB24, V4L2_PIX_FMT_BGR24,
      V4L2_PIX_FMT_YUYV, V4L2_PIX_FMT_YVYU, V4L2_PIX_FMT_GREY>>

Range(s) == {s[i] : i \in 1..Len(s)}

----------------------------------------------------------------------------
(* Bounds of the model *)

\* frames dequeued during one capture
MaxFrames == 2
\* mappings lost (no longer referenced by vbufs) after which no start is tried
MaxOrphans == 0

----------------------------------------------------------------------------
(* The operation log *)

Op(name, arg) == [op |-> name, arg |-> arg]

OpNames(log) == {log[i].op : i \in 1..Len(log)}

\* the arguments of the operations called name, in the order issued
RECURSIVE Args(_, _)
Args(log, name) ==
    IF log = <<>> THEN <<>>
    ELSE (IF Head(log).op = name THEN <<Head(log).arg>> ELSE <<>>)
         \o Args(Tail(log), name)

\* operations on the device (ioctl, mmap, munmap) and on the notifier
DeviceOps == {"S_FMT", "G_PARM", "S_PARM", "REQBUFS", "QUERYBUF", "MMAP", "MUNMAP",
              "QBUF", "DQBUF", "DQBUF_EAGAIN", "DQBUF_EIO", "STREAMON", "STREAMOFF",
              "CreateFileHandler", "DeleteFileHandler", "close",
              "S_EXT_CTRLS", "S_CTRL", "G_EXT_CTRLS", "G_CTRL"}

----------------------------------------------------------------------------
(* The device: what the kernel answers *)

\* VIDIOC_S_FMT asking for pixel format f at w x h: accepted formats are written
\* back as asked or replaced by the driver's own format and size
KSetFmt(k, f, w, h) ==
    [ok |-> f \in k.accept,
     pixelformat |-> IF k.answer = 0 THEN f ELSE k.answer,
     width |-> IF k.width = 0 THEN w ELSE k.width,
     height |-> IF k.height = 0 THEN h ELSE k.height]

\* VIDIOC_REQBUFS asking for n buffers: the count the driver writes back
KReqbufs(k, n) ==
    IF n < k.minbufs THEN k.bad
    ELSE IF k.fixed = 0 THEN n ELSE k.fixed

\* an ioctl or mmap of one start() that fails (errno other than EINTR)
Faults ==
    {[step |-> "none", at |-> 0], [step |-> "streamon", at |-> 0]}
    \cup {[step |-> s, at |-> i] : s \in {"querybuf", "mmap", "qbuf"}, i \in 0..(NVBUFS - 1)}
    \cup {[step |-> "reqbufs", at |-> i] : i \in 1..3}

----------------------------------------------------------------------------
(* StopCapture *)

\* vbufs is modelled as the set of slots whose start address is a live mapping
Unmap(vbufs, n) == vbufs \ (0..(n - 1))

MunmapOps(n) == [j \in 1..n |-> Op("MUNMAP", j - 1)]

\* StopCapture without the test of running
StopCapture_Always(w) ==
    [c |-> [w.c EXCEPT !.running = 0, !.stalled = 0, !.bufrdy = -1, !.bufdone = 0,
                       !.vbufs = Unmap(w.c.vbufs, w.c.nvbufs)],
     d |-> [w.d EXCEPT !.handler = FALSE, !.streaming = FALSE, !.queued = {}],
     ops |-> w.ops \o <<Op("DeleteFileHandler", 0), Op("STREAMOFF", 0)>>
                  \o MunmapOps(w.c.nvbufs) \o <<Op("REQBUFS", 0)>>]

\* a StopCapture that clears the counters with the other fields
StopCapture_ResetCounters(w) ==
    IF w.c.running > 0
    THEN [c |-> [w.c EXCEPT !.running = 0, !.stalled = 0, !.bufrdy = -1, !.bufdone = 0,
                            !.counters = <<0, 0>>,
                            !.vbufs = Unmap(w.c.vbufs, w.c.nvbufs)],
          d |-> [w.d EXCEPT !.handler = FALSE, !.streaming = FALSE,
                            !.queued = {}],
          ops |-> w.ops \o <<Op("DeleteFileHandler", 0), Op("STREAMOFF", 0)>>
                       \o MunmapOps(w.c.nvbufs) \o <<Op("REQBUFS", 0)>>]
    ELSE w

StopCapture(w) ==
    IF w.c.running > 0
    THEN [c |-> [w.c EXCEPT !.running = 0, !.stalled = 0, !.bufrdy = -1, !.bufdone = 0,
                            !.vbufs = Unmap(w.c.vbufs, w.c.nvbufs)],
          d |-> [w.d EXCEPT !.handler = FALSE, !.streaming = FALSE,
                            !.queued = {}],
          ops |-> w.ops \o <<Op("DeleteFileHandler", 0), Op("STREAMOFF", 0)>>
                       \o MunmapOps(w.c.nvbufs) \o <<Op("REQBUFS", 0)>>]
    ELSE w

----------------------------------------------------------------------------
(* StartCapture *)

\* for (i = 0; i < maxFmt; i++) if (f == tryFmts[i]) break;  (1-based, maxFmt + 1: not found)
RECURSIVE FormatIndex(_, _, _)
FormatIndex(tryFmts, i, f) ==
    IF i > Len(tryFmts) THEN i
    ELSE IF f = tryFmts[i] THEN i
    ELSE FormatIndex(tryFmts, i + 1, f)

\* for (i = 0; i < maxFmt; i++) if (S_FMT(tryFmts[i]) >= 0) break;
RECURSIVE TryFormats(_, _, _, _, _, _)
TryFormats(tryFmts, i, k, w, h, log) ==
    IF i > Len(tryFmts) THEN [i |-> i, fmt |-> KSetFmt(k, 0, w, h), log |-> log]
    ELSE LET ans == KSetFmt(k, tryFmts[i], w, h)
             log2 == Append(log, Op("S_FMT", tryFmts[i]))
         IN  IF ans.ok THEN [i |-> i, fmt |-> ans, log |-> log2]
             ELSE TryFormats(tryFmts, i + 1, k, w, h, log2)

\* a negotiation that tries the wanted format without looking it up in the catalog
SetFormat_WantAnyway(c, k) ==
    LET tryFmts == IF c.isLoopDev THEN FormatsLoop ELSE FormatsNormal
        maxFmt == Len(tryFmts)
        wantAns == KSetFmt(k, c.wantFormat, c.width, c.height)
        wantLog == IF c.wantFormat # 0 THEN <<Op("S_FMT", c.wantFormat)>> ELSE <<>>
        loop == TryFormats(tryFmts, 1, k, c.width, c.height, wantLog)
    IN  IF c.wantFormat # 0 /\ wantAns.ok
        THEN [status |-> "got", fmt |-> wantAns, log |-> wantLog]
        ELSE IF loop.i > maxFmt
        THEN [status |-> "none", fmt |-> loop.fmt, log |-> loop.log]
        ELSE IF FormatIndex(tryFmts, 1, loop.fmt.pixelformat) > maxFmt
        THEN [status |-> "unsupported", fmt |-> loop.fmt, log |-> loop.log]
        ELSE [status |-> "got", fmt |-> loop.fmt, log |-> loop.log]

\* set format/size: "got" (gotFormat), "none" (error setting format) or
\* "unsupported" (unable to set supported pixel format)
SetFormat(c, k) ==
    LET tryFmts == IF c.isLoopDev THEN FormatsLoop ELSE FormatsNormal
        maxFmt == Len(tryFmts)
        tryWant == c.wantFormat # 0 /\ FormatIndex(tryFmts, 1, c.wantFormat) <= maxFmt
        wantAns == KSetFmt(k, c.wantFormat, c.width, c.height)
        wantLog == IF tryWant THEN <<Op("S_FMT", c.wantFormat)>> ELSE <<>>
        loop == TryFormats(tryFmts, 1, k, c.width, c.height, wantLog)
    IN  IF tryWant /\ wantAns.ok
        THEN [status |-> "got", fmt |-> wantAns, log |-> wantLog]
        ELSE IF loop.i > maxFmt
        THEN [status |-> "none", fmt |-> loop.fmt, log |-> loop.log]
        ELSE IF FormatIndex(tryFmts, 1, loop.fmt.pixelformat) > maxFmt
        THEN [status |-> "unsupported", fmt |-> loop.fmt, log |-> loop.log]
        ELSE [status |-> "got", fmt |-> loop.fmt, log |-> loop.log]

\* try to set frame rate: the fps the session ends with
SetFrameRate(c, k) ==
    LET g == Op("G_PARM", 0)
        s == Op("S_PARM", c.fps * 100)
        q == k.den \div k.num
    IN  CASE k.parm = "gfail" -> [fps |-> c.fps, log |-> <<g>>]
          [] k.parm = "nocap" -> [fps |-> c.fps, log |-> <<g>>]
          [] k.parm = "sfail" -> [fps |-> c.fps, log |-> <<g, s>>]
          [] k.parm = "g2fail" -> [fps |-> c.fps, log |-> <<g, s, g>>]
          [] OTHER ->
                [fps |-> IF k.num > 0 THEN (IF q <= 0 THEN 1 ELSE q) ELSE c.fps,
                 log |-> <<g, s, g>>]

\* the range test without its upper limit
InRange_NoLimit(count) == ~(count <= 0)

InRange(count) == ~(count <= 0 \/ count > NVBUFS)

\* request buffers: i = 2; while (i < NVBUFS) { REQBUFS(i) ... i *= 2 }
\* nth counts the requests made; count is req.count as last written back
RECURSIVE RequestLoop(_, _, _, _, _, _)
RequestLoop(i, nth, count, k, fault, log) ==
    IF ~(i < NVBUFS) THEN [status |-> "done", count |-> count, log |-> log]
    ELSE LET log2 == Append(log, Op("REQBUFS", i))
             ans == KReqbufs(k, i)
         IN  IF fault.step = "reqbufs" /\ fault.at = nth
             THEN [status |-> "ioerr", count |-> i, log |-> log2]
             ELSE IF ~InRange(ans)
             THEN RequestLoop(i * 2, nth + 1, ans, k, fault, log2)
             ELSE [status |-> "done", count |-> ans, log |-> log2]

RequestBuffers(k, fault) ==
    LET r == RequestLoop(2, 1, 0, k, fault, <<>>)
    IN  IF r.status = "done" /\ ~InRange(r.count)
        THEN [r EXCEPT !.status = "nobufs"]
        ELSE r

\* QUERYBUF and mmap() of buffers 0..m-1, in the order issued
MapOps(m) ==
    [j \in 1..(2 * m) |->
        IF j % 2 = 1 THEN Op("QUERYBUF", (j - 1) \div 2) ELSE Op("MMAP", (j - 2) \div 2)]

\* while (--i >= 0) munmap(vbufs[i])
MunmapDownOps(m) == [j \in 1..m |-> Op("MUNMAP", m - j)]

\* mappings that lose their last reference when vbufs[0..m-1] are overwritten
Overwritten(vbufs, m) == Cardinality(vbufs \cap (0..(m - 1)))

\* mmap() buffers: for (i = 0; i < req.count; i++) { QUERYBUF; mmap }
MapBuffers(w, n, fault) ==
    IF fault.step = "querybuf" /\ fault.at < n
    THEN [ok |-> FALSE, msg |-> "error querying buffer",
          c |-> [w.c EXCEPT !.vbufs = @ \cup (0..(fault.at - 1))],
          d |-> [w.d EXCEPT !.orphans = @ + Overwritten(w.c.vbufs, fault.at)],
          ops |-> w.ops \o MapOps(fault.at) \o <<Op("QUERYBUF", fault.at)>>]
    ELSE IF fault.step = "mmap" /\ fault.at < n
    THEN [ok |-> FALSE, msg |-> "error mapping buffer",
          c |-> [w.c EXCEPT !.vbufs = @ \ (0..fault.at)],
          d |-> [w.d EXCEPT !.orphans = @ + Overwritten(w.c.vbufs, fault.at + 1)],
          ops |-> w.ops \o MapOps(fault.at + 1) \o MunmapDownOps(fault.at)]
    ELSE [ok |-> TRUE, msg |-> "",
          c |-> [w.c EXCEPT !.vbufs = @ \cup (0..(n - 1))],
          d |-> [w.d EXCEPT !.orphans = @ + Overwritten(w.c.vbufs, n)],
          ops |-> w.ops \o MapOps(n)]

\* unmapAll: for (i = 0; i < req.count; i++) munmap(vbufs[i])
UnmapAll(w, n) ==
    [c |-> [w.c EXCEPT !.vbufs = Unmap(w.c.vbufs, n)],
     d |-> w.d,
     ops |-> w.ops \o MunmapOps(n)]

\* queue buffers: for (i = 0; i < req.count; i++) QBUF(i)
QueueBuffers(w, n, fault) ==
    IF fault.step = "qbuf" /\ fault.at < n
    THEN [ok |-> FALSE,
          c |-> w.c,
          d |-> [w.d EXCEPT !.queued = 0..(fault.at - 1)],
          ops |-> w.ops \o [j \in 1..(fault.at + 1) |-> Op("QBUF", j - 1)]]
    ELSE [ok |-> TRUE,
          c |-> w.c,
          d |-> [w.d EXCEPT !.queued = 0..(n - 1)],
          ops |-> w.ops \o [j \in 1..n |-> Op("QBUF", j - 1)]]

\* running = -1; stalled = 0; return TCL_ERROR with the message msg
StartError(w, msg) ==
    [w |-> [w EXCEPT !.c.running = -1, !.c.stalled = 0], code |-> "error", msg |-> msg]

World(r) == [c |-> r.c, d |-> r.d, ops |-> r.ops]

\* StartCapture from "request buffers" on, the format being set
StartBuffers(w, k, fault, fmt) ==
    LET req == RequestBuffers(k, fault)
        w1 == [w EXCEPT !.ops = @ \o req.log,
                        !.d.queued = IF req.status = "ioerr" /\ Len(req.log) = 1
                                     THEN @ ELSE {}]
        mapped == MapBuffers(w1, req.count, fault)
        queued == QueueBuffers(World(mapped), req.count, fault)
        w2 == [World(queued) EXCEPT !.c.nvbufs = req.count,
                                    !.ops = @ \o <<Op("STREAMON", 0)>>]
    IN  IF req.status = "ioerr" THEN StartError(w1, "error requesting buffers")
        ELSE IF req.status = "nobufs" THEN StartError(w1, "unable to get buffers")
        ELSE IF ~mapped.ok THEN StartError(World(mapped), mapped.msg)
        ELSE IF ~queued.ok
        THEN StartError(UnmapAll(World(queued), req.count), "error querying buffer")
        ELSE IF fault.step = "streamon"
        THEN StartError(UnmapAll(w2, req.count), "error starting capture")
        ELSE [w |-> [w2 EXCEPT !.c.width = fmt.width, !.c.height = fmt.height,
                               !.c.running = 1, !.c.stalled = 0,
                               !.c.bufrdy = -1, !.c.bufdone = 0,
                               !.c.counters = <<0, 0>>,
                               !.d.handler = TRUE, !.d.streaming = TRUE,
                               !.ops = @ \o <<Op("CreateFileHandler", 0)>>],
              code |-> "ok", msg |-> ""]

\* StartCapture once the session is known not to be capturing
StartSetup(w, k, fault) ==
    LET f == SetFormat(w.c, k)
        w1 == [w EXCEPT !.ops = @ \o f.log]
        rate == SetFrameRate(w.c, k)
        w2 == [w1 EXCEPT !.c.format = f.fmt.pixelformat,
                         !.c.wantFormat = IF @ = 0 THEN f.fmt.pixelformat ELSE @,
                         !.c.fps = rate.fps,
                         !.ops = @ \o rate.log]
    IN  IF f.status = "none" THEN StartError(w1, "error setting format")
        ELSE IF f.status = "unsupported"
        THEN [w |-> w1, code |-> "error", msg |-> "unable to set supported pixel format"]
        ELSE StartBuffers(w2, k, fault, f.fmt)

\* StartCapture without the test of running
StartCapture_Restart(w, k, fault) == StartSetup(w, k, fault)

StartCapture(w, k, fault) ==
    IF w.c.running > 0 THEN [w |-> w, code |-> "ok", msg |-> ""]
    ELSE StartSetup(w, k, fault)

----------------------------------------------------------------------------
(* GetImage, the per-frame callback and BufferReady *)

\* a getImage that counts every success
GetImage_CountAlways(w, in) ==
    IF w.c.bufrdy < 0
    THEN [w |-> w, code |-> IF in.photo THEN "ok" ELSE "error",
          msg |-> IF in.photo THEN "0" ELSE "no image available"]
    ELSE IF ~in.conv
    THEN [w |-> w, code |-> "error", msg |-> "out of memory"]
    ELSE [w |-> [w EXCEPT !.c.bufdone = 1, !.c.counters = <<@[1], @[2] + 1>>],
          code |-> "ok", msg |-> IF in.photo THEN "1" ELSE ""]

\* the image command: in.photo (an image sink is given), in.conv (conversion succeeds)
GetImage(w, in) ==
    IF w.c.bufrdy < 0
    THEN [w |-> w, code |-> IF in.photo THEN "ok" ELSE "error",
          msg |-> IF in.photo THEN "0" ELSE "no image available"]
    ELSE IF ~in.conv
    THEN [w |-> w, code |-> "error", msg |-> "out of memory"]
    ELSE [w |-> IF w.c.bufdone = 0
                THEN [w EXCEPT !.c.bufdone = 1,
                               !.c.counters = <<@[1], @[2] + 1>>]
                ELSE w,
          code |-> "ok", msg |-> IF in.photo THEN "1" ELSE ""]

\* what the callback script does before it returns
Callbacks == {"ok", "error", "image", "stop"}

\* the close command: StopCapture, close the descriptor, free the session
Close(w) ==
    LET s == StopCapture(w)
    IN  [s EXCEPT !.c.vbufs = {},
                  !.d.open = FALSE,
                  !.d.orphans = @ + Overwritten(s.c.vbufs, NVBUFS),
                  !.ops = @ \o <<Op("close", 0)>>]

\* StopCapture(v4l2c) on a session that close has freed: the field running is read
\* from freed memory, and if it reads above 0 the descriptor, the buffer count and
\* the buffer addresses are read from it too and used
StopFreed(w, running) ==
    [w EXCEPT !.ops = @ \o <<Op("freed", "running")>>
                        \o (IF running > 0
                            THEN <<Op("freed", "fd"), Op("freed", "nvbufs"),
                                   Op("freed", "vbufs")>>
                            ELSE <<>>)]

\* a handler that leaves the capture running when the callback fails
DoCallback_NoStop(w, cb) ==
    CASE cb = "ok" -> w
      [] cb = "image" -> GetImage(w, [photo |-> TRUE, conv |-> TRUE]).w
      [] cb = "stop" -> StopCapture(w)
      [] cb = "close" -> Close(w)
      [] cb = "close_error" -> StopFreed(Close(w), 0)
      [] cb = "close_error_running" -> StopFreed(Close(w), 1)
      [] OTHER -> w

\* doCallback: Tcl_EvalEx of the callback command, StopCapture when it fails; a
\* callback may close the session ("close"), and close it and fail ("close_error",
\* "close_error_running" when the freed field running then reads above 0)
DoCallback(w, cb) ==
    CASE cb = "ok" -> w
      [] cb = "image" -> GetImage(w, [photo |-> TRUE, conv |-> TRUE]).w
      [] cb = "stop" -> StopCapture(w)
      [] cb = "close" -> Close(w)
      [] cb = "close_error" -> StopFreed(Close(w), 0)
      [] cb = "close_error_running" -> StopFreed(Close(w), 1)
      [] OTHER -> StopCapture(w)

\* an error path that reports the error without stopping the capture
CaptureError_NoStop(w, cb) ==
    DoCallback([w EXCEPT !.c.running = -1, !.c.stalled = 0,
                         !.ops = @ \o <<Op("callback_error", 0)>>], cb)

\* an error path that also clears the counters
CaptureError_ResetCounters(w, cb) ==
    LET s == StopCapture(w)
    IN  DoCallback([s EXCEPT !.c.running = -1, !.c.stalled = 0,
                             !.c.counters = <<0, 0>>,
                             !.ops = @ \o <<Op("callback_error", 0)>>], cb)

\* captureError: StopCapture, running = -1, the callback with "error"
CaptureError(w, cb) ==
    LET s == StopCapture(w)
    IN  DoCallback([s EXCEPT !.c.running = -1, !.c.stalled = 0,
                             !.ops = @ \o <<Op("callback_error", 0)>>], cb)

\* a handler that retries whenever DQBUF would block
WouldBlock_Retry(w, cb) ==
    [w EXCEPT !.c.stalled = 1, !.ops = @ \o <<Op("nanosleep", 10)>>]

\* DQBUF would block (EAGAIN): one more try through the handler, then an error
WouldBlock(w, cb) ==
    IF w.c.stalled # 0 THEN CaptureError(w, cb)
    ELSE [w EXCEPT !.c.stalled = 1, !.ops = @ \o <<Op("nanosleep", 10)>>]

\* a handler that requeues the buffer just dequeued and keeps the old ready buffer
Dequeued_NoSwap(w, index, qbuf, cb) ==
    LET got == [w EXCEPT !.c.stalled = 0, !.c.bufdone = 0,
                         !.c.counters = <<@[1] + 1, @[2]>>]
    IN  IF w.c.bufrdy >= 0
        THEN DoCallback([got EXCEPT !.ops = @ \o <<Op("QBUF", index),
                                                   Op("callback_frame", 0)>>], cb)
        ELSE DoCallback([got EXCEPT !.d.queued = @ \ {index}, !.c.bufrdy = index,
                                    !.ops = @ \o <<Op("callback_frame", 0)>>], cb)

\* DQBUF returned buffer index: swap it with the ready buffer and requeue that one
\* (qbuf: the requeue succeeds), or remember it as the ready buffer
Dequeued(w, index, qbuf, cb) ==
    LET got == [w EXCEPT !.d.queued = @ \ {index},
                         !.c.stalled = 0, !.c.bufdone = 0,
                         !.c.counters = <<@[1] + 1, @[2]>>]
        swapped == [got EXCEPT !.c.bufrdy = index,
                               !.ops = @ \o <<Op("QBUF", w.c.bufrdy)>>]
    IN  IF w.c.bufrdy >= 0
        THEN IF ~qbuf THEN CaptureError(swapped, cb)
             ELSE DoCallback([swapped EXCEPT !.d.queued = @ \cup {w.c.bufrdy},
                                             !.ops = @ \o <<Op("callback_frame", 0)>>],
                             cb)
        ELSE DoCallback([got EXCEPT !.c.bufrdy = index,
                                    !.ops = @ \o <<Op("callback_frame", 0)>>], cb)

\* the file handler: in.dq is the outcome of DQBUF ("ok", "again", "fail"),
\* in.index the buffer dequeued, in.qbuf whether the requeue succeeds, in.cb the callback
BufferReady(w, in) ==
    CASE in.dq = "again" -> WouldBlock([w EXCEPT !.ops = @ \o <<Op("DQBUF_EAGAIN", 0)>>], in.cb)
      [] in.dq = "fail" -> CaptureError([w EXCEPT !.ops = @ \o <<Op("DQBUF_EIO", 0)>>], in.cb)
      [] OTHER -> Dequeued([w EXCEPT !.ops = @ \o <<Op("DQBUF", in.index)>>],
                           in.index, in.qbuf, in.cb)

\* the state command
State(c) == IF c.running < 0 THEN "error" ELSE IF c.running # 0 THEN "capture" ELSE "stopped"

----------------------------------------------------------------------------
(* Strings: a C string is the sequence of its characters *)

Digits == <<"0", "1", "2", "3", "4", "5", "6", "7", "8", "9">>

IsDigit(ch) == \E i \in 1..Len(Digits) : Digits[i] = ch

DigitVal(ch) == (CHOOSE i \in 1..Len(Digits) : Digits[i] = ch) - 1

\* the digits of s from position p on: their decimal value and the position after them
RECURSIVE ScanDigits(_, _, _)
ScanDigits(s, p, acc) ==
    IF p <= Len(s) /\ IsDigit(s[p])
    THEN ScanDigits(s, p + 1, acc * 10 + DigitVal(s[p]))
    ELSE [val |-> acc, next |-> p]

\* the conversion %d at position p of s: an optional '-' and at least one digit
ScanInt(s, p) ==
    LET neg == p <= Len(s) /\ s[p] = "-"
        q == IF neg THEN p + 1 ELSE p
        d == ScanDigits(s, q, 0)
    IN  [ok |-> d.next > q, val |-> IF neg THEN 0 - d.val ELSE d.val, next |-> d.next]

\* Tcl_GetIntFromObj on a decimal string without leading zeros or blanks: the whole
\* string must be an integer
Tcl_GetIntFromObj(s) ==
    LET r == ScanInt(s, 1)
    IN  [ok |-> r.ok /\ r.next = Len(s) + 1, val |-> r.val]

\* sscanf(fmt, "%dx%d", &w, &h): the number of conversions made, w and h (-1 if unset)
ScanSize(s) ==
    LET a == ScanInt(s, 1)
        b == ScanInt(s, a.next + 1)
    IN  IF ~a.ok THEN [n |-> 0, w |-> -1, h |-> -1]
        ELSE IF a.next > Len(s) \/ s[a.next] # "x" THEN [n |-> 1, w |-> a.val, h |-> -1]
        ELSE IF ~b.ok THEN [n |-> 1, w |-> a.val, h |-> -1]
        ELSE [n |-> 2, w |-> a.val, h |-> b.val]

\* strchr(s, ch): the position of the first ch in s, 0 if there is none
StrChr(s, ch) ==
    IF \E i \in 1..Len(s) : s[i] = ch
    THEN CHOOSE i \in 1..Len(s) : s[i] = ch /\ \A j \in 1..(i - 1) : s[j] # ch
    ELSE 0

\* the character codes of the characters that occur in the four character codes used
CharCode(ch) ==
    CASE ch = " " -> 32 [] ch = "0" -> 48 [] ch = "1" -> 49 [] ch = "2" -> 50
      [] ch = "3" -> 51 [] ch = "4" -> 52 [] ch = "B" -> 66 [] ch = "E" -> 69
      [] ch = "G" -> 71 [] ch = "J" -> 74 [] ch = "M" -> 77 [] ch = "N" -> 78
      [] ch = "P" -> 80 [] ch = "R" -> 82 [] ch = "U" -> 85 [] ch = "V" -> 86
      [] ch = "Y" -> 89

v4l2_fourcc(a, b, c, d) ==
    CharCode(a) + CharCode(b) * 256 + CharCode(c) * 65536 + CharCode(d) * 16777216

\* memset(fcbuf, ' ', 4) and the copy of at most 4 characters of s after position at
FourccAfter(s, at) ==
    LET fcbuf == [k \in 1..4 |-> IF at + k <= Len(s) THEN s[at + k] ELSE " "]
    IN  v4l2_fourcc(fcbuf[1], fcbuf[2], fcbuf[3], fcbuf[4])

----------------------------------------------------------------------------
(* Controls *)

\* the control names and values the model writes
Str1 == <<"1">>
Str9 == <<"9">>
StrJunk == <<"a", "u", "t", "o">>
StrEmpty == <<>>
StrComma == <<",">>
StrDisabled == <<"d", "i", "s", "a", "b", "l", "e", "d">>
Str60Hz == <<"6", "0", "-", "h", "z">>
Str320x240 == <<"3", "2", "0", "x", "2", "4", "0">>
Str0x240 == <<"0", "x", "2", "4", "0">>
Str0 == <<"0">>
Str25 == <<"2", "5">>
Str200 == <<"2", "0", "0">>
Str250 == <<"2", "5", "0">>

\* the controls of the session after InitControls: two user-class controls, two
\* camera-class controls that are flagged, and the two special controls
Controls ==
    [name \in {"brightness", "power-line-frequency", "exposure-absolute",
               "focus-absolute", "frame-size", "frame-rate"} |->
       CASE name = "brightness" ->
               [type |-> "INTEGER", minimum |-> 0, maximum |-> 2, flags |-> {},
                ds |-> <<>>, useOld |-> -1]
         [] name = "power-line-frequency" ->
               \* the menu entry 1 could not be queried: stored as ","
               [type |-> "MENU", minimum |-> 0, maximum |-> 2, flags |-> {},
                ds |-> <<StrDisabled, StrComma, Str60Hz>>, useOld |-> -1]
         [] name = "exposure-absolute" ->
               [type |-> "INTEGER", minimum |-> 0, maximum |-> 2,
                flags |-> {"INACTIVE"}, ds |-> <<>>, useOld |-> 0]
         [] name = "focus-absolute" ->
               [type |-> "INTEGER", minimum |-> 0, maximum |-> 2,
                flags |-> {"READ_ONLY"}, ds |-> <<>>, useOld |-> 0]
         [] name = "frame-size" ->
               [type |-> "MENU", minimum |-> 0, maximum |-> 0, flags |-> {},
                ds |-> <<>>, useOld |-> 0]
         [] name = "frame-rate" ->
               [type |-> "INTEGER", minimum |-> 1, maximum |-> 200, flags |-> {},
                ds |-> <<>>, useOld |-> 0]]

\* the controls the kernel reported
KernelControls == DOMAIN Controls \ {"frame-size", "frame-rate"}

\* the order in which GetControls walks the controls
ControlOrder ==
    <<"frame-size", "frame-rate", "brightness", "power-line-frequency",
      "exposure-absolute", "focus-absolute">>

\* GetZZString: entry index of a list of strings that ends at its first empty
\* string, without a leading ','
GetZZString(ds, index) ==
    IF \E j \in 1..index : j > Len(ds) \/ ds[j] = <<>> THEN <<>>
    ELSE IF index + 1 > Len(ds) THEN <<>>
    ELSE IF ds[index + 1] # <<>> /\ Head(ds[index + 1]) = "," THEN Tail(ds[index + 1])
    ELSE ds[index + 1]

\* a lookup that takes an empty entry for a match of the empty label
RECURSIVE MenuLookup_EmptyMatches(_, _, _)
MenuLookup_EmptyMatches(vctrl, value, k) ==
    IF k > vctrl.maximum - vctrl.minimum THEN k
    ELSE IF GetZZString(vctrl.ds, k) = value THEN k
    ELSE MenuLookup_EmptyMatches(vctrl, value, k + 1)

\* for (k = 0; k <= maximum - minimum; k++) if (entry is not empty and is value) break;
RECURSIVE MenuLookup(_, _, _)
MenuLookup(vctrl, value, k) ==
    IF k > vctrl.maximum - vctrl.minimum THEN k
    ELSE IF GetZZString(vctrl.ds, k) # <<>> /\ GetZZString(vctrl.ds, k) = value THEN k
    ELSE MenuLookup(vctrl, value, k + 1)

\* the value to write (xc.value) for a control of the kernel, if the value given
\* can be used: the switch on vctrl->qry.type
ControlValue(vctrl, value) ==
    CASE vctrl.type \in {"INTEGER", "BOOLEAN", "INTEGER64"} ->
            [ok |-> Tcl_GetIntFromObj(value).ok, value |-> Tcl_GetIntFromObj(value).val]
      [] vctrl.type = "BUTTON" -> [ok |-> TRUE, value |-> 0]
      [] vctrl.type = "MENU" ->
            [ok |-> ~(MenuLookup(vctrl, value, 0) > vctrl.maximum - vctrl.minimum),
             value |-> MenuLookup(vctrl, value, 0) + vctrl.minimum]
      [] OTHER -> [ok |-> FALSE, value |-> 0]

\* a flag test that knows read-only controls only
IsLocked_ReadOnly(vctrl) == "READ_ONLY" \in vctrl.flags

\* the control is flagged read-only or inactive
IsLocked(vctrl) == vctrl.flags \cap {"READ_ONLY", "INACTIVE"} # {}

\* a frame-size control that does not look at the state of the session
SetFrameSize_Always(c, value) ==
    LET sz == ScanSize(value)
        at == StrChr(value, "@")
    IN  IF sz.n = 2 /\ sz.w > 0 /\ sz.h > 0
        THEN [c EXCEPT !.width = sz.w, !.height = sz.h,
                       !.wantFormat = IF at # 0 /\ Len(value) - at + 1 > 1
                                      THEN FourccAfter(value, at) ELSE 0]
        ELSE c

\* a frame-size control that is a menu of two choices
SetFrameSize_MenuOnly(c, value) ==
    LET sz == ScanSize(value)
        at == StrChr(value, "@")
    IN  IF sz.n = 2 /\ sz.w > 0 /\ sz.h > 0 /\ c.running <= 0
           /\ value \in {Str320x240, Str320x240 \o <<"@", "Y", "U", "Y", "V">>}
        THEN [c EXCEPT !.width = sz.w, !.height = sz.h,
                       !.wantFormat = IF at # 0 /\ Len(value) - at + 1 > 1
                                      THEN FourccAfter(value, at) ELSE 0]
        ELSE c

\* the frame-size control: the size and the wanted format of a session not capturing
SetFrameSize(c, value) ==
    LET sz == ScanSize(value)
        at == StrChr(value, "@")
    IN  IF sz.n = 2 /\ sz.w > 0 /\ sz.h > 0 /\ c.running <= 0
        THEN [c EXCEPT !.width = sz.w, !.height = sz.h,
                       !.wantFormat = IF at # 0 /\ Len(value) - at + 1 > 1
                                      THEN FourccAfter(value, at) ELSE 0]
        ELSE c

\* a frame-rate control that clamps the value given
SetFps_Clamp(c, value) ==
    LET fps == Tcl_GetIntFromObj(value)
    IN  IF ~fps.ok THEN c
        ELSE IF fps.val <= 0 THEN [c EXCEPT !.fps = 1]
        ELSE IF fps.val >= 200 THEN [c EXCEPT !.fps = 199]
        ELSE [c EXCEPT !.fps = fps.val]

\* the frame-rate control
SetFps(c, value) ==
    LET fps == Tcl_GetIntFromObj(value)
    IN  IF ~fps.ok THEN c
        ELSE IF fps.val > 0 /\ fps.val < 200 THEN [c EXCEPT !.fps = fps.val]
        ELSE c

\* VIDIOC_S_CTRL or VIDIOC_S_EXT_CTRLS of a supported kind writing value to control
\* name: drivers clamp an integer out of range or reject it with ERANGE
KSetCtrl(k, name, value) ==
    LET q == Controls[name]
        inside == value >= q.minimum /\ value <= q.maximum
    IN  IF inside THEN [errno |-> "", value |-> value]
        ELSE IF k.range = "clamp"
        THEN [errno |-> "", value |-> IF value < q.minimum THEN q.minimum ELSE q.maximum]
        ELSE [errno |-> "ERANGE", value |-> value]

\* Tcl_ObjPrintf("error setting \"%s\": %s", name, ...)
ErrorSetting(name) ==
    CASE name = "brightness" -> "error setting \"brightness\""
      [] name = "power-line-frequency" -> "error setting \"power-line-frequency\""
      [] name = "exposure-absolute" -> "error setting \"exposure-absolute\""
      [] name = "focus-absolute" -> "error setting \"focus-absolute\""

CtrlOp(op, name, value) == Op(op, [id |-> name, value |-> value])

\* a write whose failure goes unnoticed
WriteControl_IgnoreError(w, k, name, value, fails) ==
    LET ans == KSetCtrl(k, name, value)
        err == IF fails THEN "EIO" ELSE ans.errno
        log == IF w.c.useOld[name] > 0 THEN <<CtrlOp("S_CTRL", name, value)>>
               ELSE <<CtrlOp("S_EXT_CTRLS", name, value)>>
    IN  [ok |-> TRUE,
         w |-> [w EXCEPT !.d.ctrl[name] = IF err = "" THEN ans.value ELSE @,
                         !.ops = @ \o log]]

\* the write of xc.value to the device: the old ioctl when useOld > 0, else the
\* extended one, retried with the old one on EINVAL when useOld < 0; fails: this
\* write meets an I/O error
WriteControl(w, k, name, value, fails) ==
    LET ans == KSetCtrl(k, name, value)
        err == IF fails THEN "EIO" ELSE ans.errno
        extErr == IF ~k.extctrls THEN "EINVAL" ELSE err
        ext == CtrlOp("S_EXT_CTRLS", name, value)
        old == CtrlOp("S_CTRL", name, value)
        done(log, useOld) ==
            [ok |-> TRUE,
             w |-> [w EXCEPT !.d.ctrl[name] = ans.value, !.c.useOld[name] = useOld,
                             !.ops = @ \o log]]
        failed(log) == [ok |-> FALSE, w |-> [w EXCEPT !.ops = @ \o log]]
    IN  IF w.c.useOld[name] > 0
        THEN IF err = "" THEN done(<<old>>, w.c.useOld[name]) ELSE failed(<<old>>)
        ELSE IF extErr = "" THEN done(<<ext>>, w.c.useOld[name])
        ELSE IF extErr = "EINVAL" /\ w.c.useOld[name] < 0
        THEN IF err = "" THEN done(<<ext, old>>, 1) ELSE failed(<<ext, old>>)
        ELSE failed(<<ext>>)

\* SetControls from pair i of objv on; failAt: the pair whose device write meets an
\* I/O error (0: none)
RECURSIVE SetControls(_, _, _, _, _)
SetControls(w, k, objv, i, failAt) ==
    IF i > Len(objv) THEN [w |-> w, code |-> "ok", msg |-> ""]
    ELSE LET name == objv[i][1]
             value == objv[i][2]
             vctrl == Controls[name]
             xc == ControlValue(vctrl, value)
             wr == WriteControl(w, k, name, xc.value, i = failAt)
         IN  IF name \notin DOMAIN Controls
             THEN SetControls(w, k, objv, i + 1, failAt)
             ELSE IF IsLocked(vctrl)
             THEN SetControls(w, k, objv, i + 1, failAt)
             ELSE IF name = "frame-size"
             THEN SetControls([w EXCEPT !.c = SetFrameSize(@, value)],
                              k, objv, i + 1, failAt)
             ELSE IF name = "frame-rate"
             THEN SetControls([w EXCEPT !.c = SetFps(@, value)], k, objv, i + 1, failAt)
             ELSE IF ~xc.ok
             THEN SetControls(w, k, objv, i + 1, failAt)
             ELSE IF wr.ok
             THEN SetControls(wr.w, k, objv, i + 1, failAt)
             ELSE [w |-> wr.w, code |-> "error", msg |-> ErrorSetting(name)]

\* GetControls from control i of the walk on: the reads of the kernel's controls
RECURSIVE GetControls(_, _, _)
GetControls(w, k, i) ==
    IF i > Len(ControlOrder) THEN w
    ELSE LET name == ControlOrder[i]
             ext == CtrlOp("G_EXT_CTRLS", name, 0)
             old == CtrlOp("G_CTRL", name, 0)
         IN  IF name \notin KernelControls \/ "WRITE_ONLY" \in Controls[name].flags
             THEN GetControls(w, k, i + 1)
             ELSE IF w.c.useOld[name] > 0
             THEN GetControls([w EXCEPT !.ops = @ \o <<old>>], k, i + 1)
             ELSE IF k.extctrls
             THEN GetControls([w EXCEPT !.ops = @ \o <<ext>>], k, i + 1)
             ELSE IF w.c.useOld[name] < 0
             THEN GetControls([w EXCEPT !.ops = @ \o <<ext, old>>,
                                        !.c.useOld[name] = 1], k, i + 1)
             ELSE GetControls([w EXCEPT !.ops = @ \o <<ext>>], k, i + 1)

\* the parameters command: SetControls, then GetControls for the result
Parameters(w, k, objv, failAt) ==
    LET r == SetControls(w, k, objv, 1, failAt)
    IN  IF r.code = "ok"
        THEN [w |-> GetControls(r.w, k, 1), code |-> "ok", msg |-> ""]
        ELSE r

----------------------------------------------------------------------------
(* Devices *)

AllFormats == Range(FormatsNormal) \cup Range(FormatsLoop)

\* a capture device that accepts every catalog format as asked, reports 15 fps when
\* opened and 30 fps once a rate is set, grants the buffer count requested, supports
\* the extended control ioctls and clamps control values
PlainDevice ==
    [loop |-> FALSE, accept |-> AllFormats, answer |-> 0, width |-> 0, height |-> 0,
     parm |-> "ok", num |-> 1, den |-> 30, minbufs |-> 1, bad |-> 0, fixed |-> 0,
     extctrls |-> TRUE, range |-> "clamp", openNum |-> 1, openDen |-> 15]

\* devices that differ in format negotiation
FormatDevices ==
    {[PlainDevice EXCEPT !.accept = {}],
     [PlainDevice EXCEPT !.accept = {V4L2_PIX_FMT_YUYV}],
     [PlainDevice EXCEPT !.answer = V4L2_PIX_FMT_NV12, !.width = 320, !.height = 240],
     [PlainDevice EXCEPT !.loop = TRUE, !.answer = V4L2_PIX_FMT_YUYV]}

\* devices that differ in frame rate negotiation
RateDevices ==
    {[PlainDevice EXCEPT !.parm = p] : p \in {"gfail", "nocap", "sfail", "g2fail"}}
    \cup {[PlainDevice EXCEPT !.num = 0], [PlainDevice EXCEPT !.num = 100, !.den = 1]}

\* devices that grant a count of their own whatever is asked
FixedDevices == {[PlainDevice EXCEPT !.fixed = n] : n \in {1, 3}}

\* devices that differ in buffer negotiation: requests below minbufs are answered
\* with an out-of-range count (0 or NVBUFS + 1), others are granted as asked
ThresholdDevices ==
    {[PlainDevice EXCEPT !.minbufs = m, !.bad = b] :
        m \in 1..(NVBUFS + 1), b \in {0, NVBUFS + 1}}

\* devices that grant no usable count
NoBufferDevices == {d \in ThresholdDevices : d.minbufs > NVBUFS}

Devices == {PlainDevice} \cup FormatDevices \cup RateDevices \cup FixedDevices
           \cup NoBufferDevices

\* the devices of the buffer negotiation
BufferDevices ==
    ThresholdDevices \cup {[PlainDevice EXCEPT !.fixed = n] : n \in {1, NVBUFS, NVBUFS + 1}}

----------------------------------------------------------------------------
(* The state machine *)

\* the fps of a new session: the rate the device reports when it is opened if that is
\* above 0 and below 200, else 15
OpenFps(k) ==
    IF k.parm \in {"gfail", "nocap"} \/ ~(k.openNum > 0) THEN 15
    ELSE IF k.openDen \div k.openNum > 0 /\ k.openDen \div k.openNum < 200
    THEN k.openDen \div k.openNum
    ELSE 15

\* the open command: the session as created for a device
InitWith(devices) ==
    /\ kern \in devices
    /\ v4l2c = [running |-> 0, stalled |-> 0, format |-> 0, wantFormat |-> 0,
                isLoopDev |-> kern.loop, bufrdy |-> -1, bufdone |-> 0,
                width |-> 640, height |-> 480, fps |-> OpenFps(kern),
                counters |-> <<0, 0>>, nvbufs |-> 0,
                vbufs |-> {},
                useOld |-> [name \in KernelControls |-> Controls[name].useOld]]
    /\ dev = [handler |-> FALSE, streaming |-> FALSE, queued |-> {},
              orphans |-> 0, open |-> TRUE,
              ctrl |-> [name \in KernelControls |-> 0]]
    /\ ops = <<>>
    /\ ret = [cmd |-> "open", code |-> "ok", msg |-> "vdev0"]
    /\ alive = TRUE

Init == InitWith(Devices)

Now == [c |-> v4l2c, d |-> dev, ops |-> <<>>]

Becomes(w) ==
    /\ v4l2c' = w.c
    /\ dev' = w.d
    /\ ops' = w.ops

\* v4l2 start devid
StartCmd ==
    /\ alive
    /\ dev.orphans <= MaxOrphans
    /\ \E fault \in Faults :
          LET r == StartCapture(Now, kern, fault)
          IN  Becomes(r.w) /\ ret' = [cmd |-> "start", code |-> r.code, msg |-> r.msg]
    /\ UNCHANGED <<kern, alive>>

\* v4l2 stop devid
StopCmd ==
    /\ alive
    /\ Becomes(StopCapture(Now))
    /\ ret' = [cmd |-> "stop", code |-> "ok", msg |-> ""]
    /\ UNCHANGED <<kern, alive>>

\* v4l2 image devid ?photo?
ImageCmd ==
    /\ alive
    /\ \E photo \in BOOLEAN, conv \in BOOLEAN :
          LET r == GetImage(Now, [photo |-> photo, conv |-> conv])
          IN  Becomes(r.w) /\ ret' = [cmd |-> "image", code |-> r.code, msg |-> r.msg]
    /\ UNCHANGED <<kern, alive>>

\* the event loop finds the descriptor readable and calls the file handler
ReadyEvent ==
    /\ alive
    /\ dev.handler
    /\ \E dq \in {"ok", "again", "fail"}, qbuf \in BOOLEAN, cb \in Callbacks :
       \E index \in IF dq = "ok" /\ v4l2c.counters[1] < MaxFrames THEN dev.queued ELSE {0} :
          /\ dq = "ok" => index \in dev.queued /\ v4l2c.counters[1] < MaxFrames
          /\ Becomes(BufferReady(Now, [dq |-> dq, index |-> index, qbuf |-> qbuf, cb |-> cb]))
    /\ ret' = [cmd |-> "ready", code |-> "ok", msg |-> ""]
    /\ UNCHANGED <<kern, alive>>

\* v4l2 close devid
CloseCmd ==
    /\ alive
    /\ Becomes(Close(Now))
    /\ ret' = [cmd |-> "close", code |-> "ok", msg |-> ""]
    /\ alive' = FALSE
    /\ UNCHANGED kern

Next == StartCmd \/ StopCmd \/ ImageCmd \/ ReadyEvent \/ CloseCmd

Spec == Init /\ [][Next]_vars

\* start, stop and close on the devices of the buffer negotiation
InitBufs == InitWith(BufferDevices)

NextBufs == StartCmd \/ StopCmd \/ CloseCmd

SpecBufs == InitBufs /\ [][NextBufs]_vars

\* the key value pairs given to the parameters command
ControlPairs ==
    {<<"nosuch", Str1>>, <<"exposure-absolute", Str1>>, <<"focus-absolute", Str1>>,
     <<"frame-rate", StrJunk>>}
    \cup {<<"brightness", v>> : v \in {Str1, Str9, StrJunk}}
    \cup {<<"power-line-frequency", v>> : v \in {Str60Hz, StrJunk, StrEmpty, StrComma}}

SizePairs ==
    {<<"frame-size", v>> :
        v \in {Str320x240, Str320x240 \o <<"@", "M", "J", "P", "G">>,
               Str320x240 \o <<"@", "Y", "U", "Y", "V">>, Str0x240, StrJunk}}

RatePairs == {<<"frame-rate", v>> : v \in {Str25, Str0, Str200, Str250, StrJunk}}

\* argument lists on the controls of the kernel: none, one pair, one pair and a pair
\* that applies, and a brightness pair between two pairs that apply
ControlLists ==
    {<<>>} \cup {<<p>> : p \in ControlPairs}
    \cup {<<p, <<"brightness", Str1>> >> : p \in ControlPairs}
    \cup {<<a, p, b>> :
             a \in {<<"power-line-frequency", Str60Hz>>, <<"frame-size", Str320x240>>},
             p \in {<<"brightness", Str1>>, <<"brightness", Str9>>},
             b \in {<<"power-line-frequency", Str60Hz>>, <<"frame-rate", Str25>>}}

\* argument lists on the two special controls: one pair, or a size and a rate
SizeRateLists ==
    {<<p>> : p \in SizePairs \cup RatePairs}
    \cup {<<<<"frame-size", Str320x240>>, <<"frame-rate", Str25>>>>}

\* v4l2 parameters devid ?key value ...? with an argument list of lists
ParametersWith(lists) ==
    /\ alive
    /\ \E objv \in lists :
       \E failAt \in {0} \cup {i \in 1..Len(objv) : objv[i][1] \in KernelControls} :
          LET r == Parameters(Now, kern, objv, failAt)
          IN  /\ Becomes(r.w)
              /\ ret' = [cmd |-> "parameters", code |-> r.code, msg |-> r.msg,
                         objv |-> objv, failAt |-> failAt]
    /\ UNCHANGED <<kern, alive>>

\* the parameters command on the controls of the kernel
ControlsCmd == ParametersWith(ControlLists)

\* the parameters command on frame-size and frame-rate
SizeRateCmd == ParametersWith(SizeRateLists)

\* devices that differ in how they take control values
ControlDevices ==
    {PlainDevice,
     [PlainDevice EXCEPT !.range = "erange"],
     [PlainDevice EXCEPT !.extctrls = FALSE]}

\* the parameters command on the controls of the kernel, on a session not started
InitControl == InitWith(ControlDevices)

NextControl == ControlsCmd \/ CloseCmd

SpecControl == InitControl /\ [][NextControl]_vars

\* devices that differ in the formats and the frame rate they settle on
SizeRateDevices ==
    {PlainDevice,
     [PlainDevice EXCEPT !.accept = {}],
     [PlainDevice EXCEPT !.accept = {V4L2_PIX_FMT_YUYV, V4L2_PIX_FMT_GREY}],
     [PlainDevice EXCEPT !.answer = V4L2_PIX_FMT_NV12],
     [PlainDevice EXCEPT !.den = 1000, !.openDen = 1000]}

\* frame-size and frame-rate writes between start, stop and close
InitSizeRate == InitWith(SizeRateDevices)

NextSizeRate == StartCmd \/ StopCmd \/ SizeRateCmd \/ CloseCmd

SpecSizeRate == InitSizeRate /\ [][NextSizeRate]_vars

\* argument lists of one pair that applies: a size, a rate, a control of the kernel
LifetimeLists ==
    {<<p>> : p \in {<<"frame-size", Str320x240>>, <<"frame-rate", Str25>>,
                    <<"brightness", Str1>>}}

\* the parameters command with one pair
SetOneCmd == ParametersWith(LifetimeLists)

\* every operation of a session on the plain device
InitLifetime == InitWith({PlainDevice})

NextLifetime ==
    StartCmd \/ StopCmd \/ ImageCmd \/ ReadyEvent \/ SetOneCmd \/ CloseCmd

SpecLifetime == InitLifetime /\ [][NextLifetime]_vars

----------------------------------------------------------------------------
(* Properties *)

Capturing == v4l2c.running > 0

\* the pool of the running capture
Pool == 0..(v4l2c.nvbufs - 1)

Count(log, name) == Len(Args(log, name))

\* a step of StartCmd, of StopCmd, of ReadyEvent (each command leaves its name in ret)
StartStep == ret'.cmd = "start"
StopStep == ret'.cmd = "stop"
ReadyStep == ret'.cmd = "ready"

\* the step is the one that world w describes
Took(w) == v4l2c' = w.c /\ dev' = w.d /\ ops' = w.ops

Notified(log) == {"callback_frame", "callback_error"} \cap OpNames(log) # {}

\* C1: start() on a session that is Capturing returns success, leaves the session
\* (state, format, size, fps, pool, mappings, ready index, stalled, counters) and the
\* device side as they are and issues no operation to the device.
C1_StartWhileCapturing ==
    [][(StartStep /\ Capturing) =>
          /\ ret'.code = "ok"
          /\ v4l2c' = v4l2c
          /\ dev' = dev
          /\ OpNames(ops') \cap DeviceOps = {}]_vars

\* a start() answered while a capture with a ready, consumed frame was running
C1_Witness ==
    /\ ret = [cmd |-> "start", code |-> "ok", msg |-> ""]
    /\ ops = <<>>
    /\ Capturing /\ v4l2c.bufrdy >= 0 /\ v4l2c.counters = <<2, 1>>

\* C2: stop() on a session that is Stopped returns success, changes no field and
\* issues no device operation; after any stop() a further stop() changes nothing.
C2_StopWhileStopped ==
    [][StopStep =>
          /\ ret'.code = "ok"
          /\ v4l2c.running = 0 =>
                (v4l2c' = v4l2c /\ dev' = dev /\ OpNames(ops') \cap DeviceOps = {})
          /\ StopCapture([c |-> v4l2c', d |-> dev', ops |-> <<>>])
                = [c |-> v4l2c', d |-> dev', ops |-> <<>>]]_vars

\* a stop() answered in the Stopped state, after a capture that delivered frames
C2_Witness ==
    /\ ret = [cmd |-> "stop", code |-> "ok", msg |-> ""]
    /\ ops = <<>>
    /\ v4l2c.running = 0 /\ v4l2c.counters[1] > 0

\* C3: stop() in any state returns success and leaves the session not Capturing,
\* without a mapped buffer, with ready index none, stalled and done cleared and no
\* readiness handler; no notification is invoked while the session is not Capturing.
C3_StopFromAnyState ==
    [][/\ StopStep =>
            /\ ret'.code = "ok"
            /\ ~(v4l2c'.running > 0)
            /\ v4l2c'.vbufs = {}
            /\ v4l2c'.bufrdy = -1 /\ v4l2c'.stalled = 0 /\ v4l2c'.bufdone = 0
            /\ ~dev'.handler
       /\ Notified(ops') => (Capturing /\ dev.handler)]_vars

\* C4 as stated: two consecutive would-block dequeues end in Error; a single one sets
\* stalled, notifies nothing and leaves the session Capturing; a successful dequeue
\* after it clears stalled and keeps the session Capturing (the callback returning
\* without an error and without stopping the capture itself).
C4_StallThenSuccess ==
    [][ReadyStep =>
          /\ ("DQBUF_EAGAIN" \in OpNames(ops') /\ v4l2c.stalled # 0) =>
                (v4l2c'.running = -1 /\ "callback_error" \in OpNames(ops'))
          /\ ("DQBUF_EAGAIN" \in OpNames(ops') /\ v4l2c.stalled = 0) =>
                (v4l2c'.stalled = 1 /\ v4l2c'.running > 0 /\ ~Notified(ops'))
          /\ ("DQBUF" \in OpNames(ops') /\ v4l2c.stalled # 0) => v4l2c'.stalled = 0
          /\ \A index \in dev.queued, qbuf \in BOOLEAN, cb \in {"ok", "image"} :
                (v4l2c.stalled # 0
                 /\ Took(BufferReady(Now, [dq |-> "ok", index |-> index,
                                           qbuf |-> qbuf, cb |-> cb])))
                => v4l2c'.running > 0]_vars

\* C4 (amended): two consecutive would-block dequeues end in Error; a single one sets
\* stalled, notifies nothing and leaves the session Capturing; a successful dequeue
\* after it clears stalled, and the session stays Capturing when the requeue of the
\* previous ready buffer succeeds and the callback returns without stopping the
\* capture; otherwise it ends in Error (requeue failed) or Stopped (callback).
C4_StallHandling ==
    [][ReadyStep =>
          /\ ("DQBUF_EAGAIN" \in OpNames(ops') /\ v4l2c.stalled # 0) =>
                (v4l2c'.running = -1 /\ "callback_error" \in OpNames(ops'))
          /\ ("DQBUF_EAGAIN" \in OpNames(ops') /\ v4l2c.stalled = 0) =>
                (v4l2c'.stalled = 1 /\ v4l2c'.running > 0 /\ ~Notified(ops'))
          /\ ("DQBUF" \in OpNames(ops') /\ v4l2c.stalled # 0) =>
                /\ v4l2c'.stalled = 0
                /\ \/ v4l2c'.running > 0
                   \/ v4l2c'.running = -1 /\ v4l2c.bufrdy >= 0
                      /\ "callback_error" \in OpNames(ops')
                   \/ v4l2c'.running = 0 /\ "callback_frame" \in OpNames(ops')
          /\ \A index \in dev.queued, cb \in {"ok", "image"} :
                (v4l2c.stalled # 0
                 /\ Took(BufferReady(Now, [dq |-> "ok", index |-> index,
                                           qbuf |-> TRUE, cb |-> cb])))
                => v4l2c'.running > 0]_vars

\* the second of two consecutive would-block dequeues has moved the session to Error
C4_Witness ==
    /\ ret.cmd = "ready"
    /\ ops # <<>> /\ Head(ops).op = "DQBUF_EAGAIN"
    /\ "callback_error" \in OpNames(ops)
    /\ v4l2c.running = -1

\* C5: on a device that answers requests below 5 with an out-of-range count and grants
\* 5 or more as asked, buffer negotiation ends with 8 buffers (requests 2, 4, 8) and a
\* successful start() runs with a pool of 8; on a device that grants no count up to
\* 16, start() fails.
C5_NegotiationFrom5 ==
    /\ (kern.minbufs = 5 /\ kern.fixed = 0 /\ ret.cmd = "start" /\ ret.code = "ok") =>
          /\ v4l2c.nvbufs = 8
          /\ v4l2c.vbufs = 0..7
          /\ dev.queued = 0..7
    /\ (kern.minbufs = 5 /\ kern.fixed = 0 /\ ret.cmd = "start" /\ ops # <<>>
        /\ ret.msg # "error requesting buffers") =>
          Args(ops, "REQBUFS") = <<2, 4, 8>>
    /\ (kern.minbufs > NVBUFS /\ kern.fixed = 0 /\ ret.cmd = "start") =>
          (ret.code = "error" /\ v4l2c.running = -1)

\* a capture started with 8 buffers on a device that answers 17 to requests below 5
C5_Witness ==
    /\ kern.minbufs = 5 /\ kern.fixed = 0 /\ kern.bad > NVBUFS
    /\ ret = [cmd |-> "start", code |-> "ok", msg |-> ""]
    /\ Args(ops, "REQBUFS") = <<2, 4, 8>>
    /\ Capturing /\ v4l2c.nvbufs = 8

\* C6: start() gives up on the buffer request only after it has requested 2, 4, 8 and
\* 16 buffers, so a device that grants only a request for 16 is served.
C6_RequestsUpToCap ==
    /\ (ret.cmd = "start" /\ ret.msg = "unable to get buffers") =>
          Args(ops, "REQBUFS") = <<2, 4, 8, 16>>
    /\ (kern.minbufs = NVBUFS /\ kern.fixed = 0 /\ ret.cmd = "start") =>
          ret.msg # "unable to get buffers"

\* C7: while Capturing the ready index is none or an index of the pool, and the buffer
\* it names is the only buffer of the pool that is not queued to the kernel; a frame
\* delivered by the handler requeued at most the one buffer that was ready before.
C7_OneBufferCheckedOut ==
    Capturing =>
       /\ v4l2c.bufrdy = -1 \/ v4l2c.bufrdy \in Pool
       /\ dev.queued = Pool \ {v4l2c.bufrdy}
       /\ Cardinality(Pool \ dev.queued) <= 1
       /\ (ret.cmd = "ready" /\ "callback_frame" \in OpNames(ops)) =>
             /\ v4l2c.bufrdy \in Range(Args(ops, "DQBUF"))
             /\ Count(ops, "QBUF") <= 1
             /\ \A b \in Range(Args(ops, "QBUF")) : b \in dev.queued

\* a second frame has displaced the first: the old buffer is requeued, the new one out
C7_Witness ==
    /\ Capturing /\ ret.cmd = "ready"
    /\ v4l2c.counters[1] = 2
    /\ Count(ops, "QBUF") = 1
    /\ v4l2c.bufrdy \in Pool
    /\ v4l2c.nvbufs = 3

\* C8: a handler run that ends in an error (hard dequeue failure, second would-block,
\* requeue failure) has deregistered the handler, issued stream-off, unmapped every
\* buffer of the pool, released the kernel allocation, reset the ready index, left
\* the session in Error and invoked the callback once, with "error"; while the
\* session is not Capturing no callback is invoked.
C8_HandlerError ==
    [][/\ (ReadyStep /\ (\/ "DQBUF_EIO" \in OpNames(ops')
                         \/ "DQBUF_EAGAIN" \in OpNames(ops') /\ v4l2c.stalled # 0
                         \/ "callback_error" \in OpNames(ops'))) =>
            /\ Count(ops', "callback_error") = 1
            /\ Count(ops', "callback_frame") = 0
            /\ Count(ops', "DeleteFileHandler") = 1
            /\ Count(ops', "STREAMOFF") = 1
            /\ Args(ops', "MUNMAP") = [j \in 1..v4l2c.nvbufs |-> j - 1]
            /\ Args(ops', "REQBUFS") = <<0>>
            /\ v4l2c'.running = -1
            /\ v4l2c'.vbufs = {}
            /\ v4l2c'.bufrdy = -1 /\ v4l2c'.stalled = 0
            /\ ~dev'.handler /\ ~dev'.streaming
       /\ Notified(ops') => (Capturing /\ dev.handler)
       /\ ~(v4l2c'.running > 0) => ~dev'.handler]_vars

\* a requeue failure on the second frame has ended the capture in Error
C8_Witness ==
    /\ ret.cmd = "ready"
    /\ v4l2c.running = -1
    /\ Count(ops, "QBUF") = 1
    /\ Count(ops, "callback_error") = 1
    /\ v4l2c.counters[1] = 2

\* C9: when the session is not Capturing none of its buffers is mapped, and no
\* mapping made by start() is ever left without its munmap().
C9_NoMappingUnlessCapturing ==
    /\ dev.orphans = 0
    /\ ~Capturing => v4l2c.vbufs = {}

\* C10: a start() that returns an error leaves the session in Error, stalled cleared.
C10_FailedStartIsError ==
    (ret.cmd = "start" /\ ret.code = "error") =>
        (State(v4l2c) = "error" /\ v4l2c.stalled = 0)

----------------------------------------------------------------------------
(* Format negotiation, counters and the parameters command *)

\* the active catalog of the session
Catalog == IF v4l2c.isLoopDev THEN FormatsLoop ELSE FormatsNormal

\* the catalog up to its first entry the kernel accepts (all of it if there is none)
TriedOfCatalog ==
    LET hits == {i \in 1..Len(Catalog) : Catalog[i] \in kern.accept}
        first == IF hits = {} THEN Len(Catalog)
                 ELSE CHOOSE i \in hits : \A j \in hits : i <= j
    IN  SubSeq(Catalog, 1, first)

\* the format the driver writes back when it accepts format f
WrittenBack(f) == IF kern.answer = 0 THEN f ELSE kern.answer

FormatErrors == {"error setting format", "unable to set supported pixel format"}

\* the wanted format is tried first and the kernel accepts it
WantTaken ==
    /\ v4l2c.wantFormat # 0
    /\ v4l2c.wantFormat \in Range(Catalog)
    /\ v4l2c.wantFormat \in kern.accept

\* the order in which start() tries formats: the wanted format first when it is in
\* the catalog, alone when the kernel accepts it, else followed by the catalog in
\* declared order up to the first entry accepted
TriesInOrder ==
    /\ WantTaken =>
          /\ Args(ops', "S_FMT") = <<v4l2c.wantFormat>>
          /\ ret'.msg \notin FormatErrors
          /\ v4l2c'.format = WrittenBack(v4l2c.wantFormat)
    /\ ~WantTaken =>
          /\ Args(ops', "S_FMT") =
                (IF v4l2c.wantFormat # 0 /\ v4l2c.wantFormat \in Range(Catalog)
                 THEN <<v4l2c.wantFormat>> ELSE <<>>) \o TriedOfCatalog
          /\ ret'.msg \notin FormatErrors =>
                v4l2c'.format = WrittenBack(TriedOfCatalog[Len(TriedOfCatalog)])

\* C11 as stated: start() tries the requested format first when it is non-zero, in
\* the active catalog and accepted; otherwise every catalog entry in declared order,
\* the first accepted one being used; it fails with a format error only when the
\* kernel rejects every catalog entry.
C11_FormatErrorOnlyIfAllRejected ==
    [][(StartStep /\ ~Capturing) =>
          /\ TriesInOrder
          /\ ret'.msg \in FormatErrors => Range(Catalog) \cap kern.accept = {}]_vars

\* C11 (amended): start() tries the requested format first when it is non-zero, in the
\* active catalog and accepted; otherwise every catalog entry in declared order, the
\* first accepted one being used; it fails with a format error only when the kernel
\* rejects every catalog entry or answers the first entry it accepts with a format
\* that is not in the catalog; a requested format outside the catalog is not tried
\* and does not make start() fail.
C11_FormatNegotiation ==
    [][(StartStep /\ ~Capturing) =>
          /\ TriesInOrder
          /\ ret'.msg = "error setting format" <=>
                (~WantTaken /\ Range(Catalog) \cap kern.accept = {})
          /\ ret'.msg = "unable to set supported pixel format" <=>
                (/\ ~WantTaken
                 /\ Range(Catalog) \cap kern.accept # {}
                 /\ WrittenBack(TriedOfCatalog[Len(TriedOfCatalog)]) \notin Range(Catalog))
          /\ v4l2c.wantFormat \notin Range(Catalog) =>
                v4l2c.wantFormat \notin Range(Args(ops', "S_FMT"))]_vars

\* a start() with MJPG requested, which is not in the catalog, has taken RGB24
C11_Witness ==
    /\ ret = [cmd |-> "start", code |-> "ok", msg |-> ""]
    /\ v4l2c.wantFormat = V4L2_PIX_FMT_MJPEG
    /\ v4l2c.wantFormat \notin Range(Catalog)
    /\ Args(ops, "S_FMT") = <<V4L2_PIX_FMT_RGB24>>
    /\ Capturing /\ v4l2c.format = V4L2_PIX_FMT_RGB24

\* C12: stop() leaves both counters (frames captured, frames consumed) unchanged,
\* from every state.
C12_StopKeepsCounters ==
    [][StopStep => v4l2c'.counters = v4l2c.counters]_vars

\* a stop() has ended a capture that had delivered two frames, one of them consumed
C12_Witness ==
    /\ ret.cmd = "stop"
    /\ "STREAMOFF" \in OpNames(ops)
    /\ v4l2c.running = 0
    /\ v4l2c.counters = <<2, 1>>

\* a start() that begins a capture: the session was not Capturing and start() succeeds
Restart == StartStep /\ ~Capturing /\ ret'.code = "ok"

\* C13 as stated: the frames-captured and frames-consumed counters never decrease,
\* across any sequence of start, stop, ready-event, getImage and parameter operations.
C13_CountersNeverDecrease ==
    [][/\ v4l2c'.counters[1] >= v4l2c.counters[1]
       /\ v4l2c'.counters[2] >= v4l2c.counters[2]]_vars

\* C13 (amended): a start() that begins a capture resets both counters to zero; no
\* other start, stop, ready-event, getImage or parameter operation decreases the
\* frames-captured or the frames-consumed counter.
C13_CountersResetOnlyByStart ==
    [][/\ Restart => v4l2c'.counters = <<0, 0>>
       /\ ~Restart =>
             /\ v4l2c'.counters[1] >= v4l2c.counters[1]
             /\ v4l2c'.counters[2] >= v4l2c.counters[2]]_vars

\* a parameters command after a capture that had delivered two frames, one of them
\* consumed, and was stopped: the counters are as the capture left them
C13_Witness ==
    /\ ret.cmd = "parameters" /\ ret.code = "ok"
    /\ ret.objv = <<<<"frame-rate", Str25>>>>
    /\ v4l2c.running = 0 /\ v4l2c.fps = 25
    /\ v4l2c.counters = <<2, 1>>

ParametersStep == ret'.cmd = "parameters"

\* the positions in log of the writes to control name
ControlWrites(log, name) ==
    {i \in 1..Len(log) : log[i].op \in {"S_EXT_CTRLS", "S_CTRL"} /\ log[i].arg.id = name}

\* the choices of a menu control: the entries of its list that are not empty
MenuChoices(name) ==
    {GetZZString(Controls[name].ds, k) :
        k \in 0..(Controls[name].maximum - Controls[name].minimum)} \ {<<>>}

\* the strings that are integers
IntegerStrings == {Str0, Str1, Str9, Str25, Str200, Str250}

\* pair i is the only pair of objv on its control
OnlyPairOn(objv, i) == \A j \in 1..Len(objv) : j # i => objv[j][1] # objv[i][1]

\* the pair after pair i, a brightness write of 1, has been carried out
NextPairDone(objv, i) ==
    (i < Len(objv) /\ objv[i + 1] = <<"brightness", Str1>>) =>
        /\ ControlWrites(ops', "brightness") # {}
        /\ ret'.failAt # i + 1 =>
              (dev'.ctrl["brightness"] = 1 /\ ret'.code = "ok")

\* pair i of a parameters command was passed over: no write to its control, no
\* change of its value, no error on it, and the next pair carried out
PassedOver(objv, i) ==
    /\ ControlWrites(ops', objv[i][1]) = {}
    /\ objv[i][1] \in KernelControls =>
          /\ dev'.ctrl[objv[i][1]] = dev.ctrl[objv[i][1]]
          /\ ret'.msg # ErrorSetting(objv[i][1])
    /\ objv[i][1] = "frame-rate" => v4l2c'.fps = v4l2c.fps
    /\ Len(objv) = 1 => ret'.code = "ok"
    /\ NextPairDone(objv, i)

\* C14: setting a menu control of the kernel to a label that is not a non-empty entry
\* of its choice list is a no-op: no device write, the value unchanged, success, and
\* the next pair is carried out.
C14_MenuMissIsNoOp ==
    [][ParametersStep =>
          \A i \in 1..Len(ret'.objv) :
             (/\ ret'.objv[i][1] \in KernelControls
              /\ Controls[ret'.objv[i][1]].type = "MENU"
              /\ ret'.objv[i][2] \notin MenuChoices(ret'.objv[i][1])
              /\ OnlyPairOn(ret'.objv, i))
             => PassedOver(ret'.objv, i)]_vars

\* the empty label was given for a menu set to "60-hz" before: the menu is as it was
\* and the brightness pair after it is applied
C14_Witness ==
    /\ ret.cmd = "parameters" /\ ret.code = "ok"
    /\ ret.objv = <<<<"power-line-frequency", StrEmpty>>, <<"brightness", Str1>>>>
    /\ ret.failAt = 1
    /\ dev.ctrl["power-line-frequency"] = 2
    /\ dev.ctrl["brightness"] = 1

\* C15: the parameters command reports no error and issues no device write for a pair
\* whose name is unknown, whose control is flagged read-only or inactive, or whose
\* value cannot be parsed as the control's kind, and continues with the next pair.
C15_SkippedPairs ==
    [][ParametersStep =>
          \A i \in 1..Len(ret'.objv) :
             (/\ OnlyPairOn(ret'.objv, i)
              /\ \/ ret'.objv[i][1] \notin DOMAIN Controls
                 \/ ret'.objv[i][1] \in {"exposure-absolute", "focus-absolute"}
                 \/ /\ ret'.objv[i][1] \in {"brightness", "frame-rate"}
                    /\ ret'.objv[i][2] \notin IntegerStrings)
             => PassedOver(ret'.objv, i)]_vars

\* a pair on the inactive control, its write chosen to fail, then a brightness pair:
\* success, the inactive control as it was, the brightness applied
C15_Witness ==
    /\ ret.cmd = "parameters" /\ ret.code = "ok"
    /\ ret.objv = <<<<"exposure-absolute", Str1>>, <<"brightness", Str1>>>>
    /\ ret.failAt = 1
    /\ dev.ctrl["exposure-absolute"] = 0
    /\ dev.ctrl["brightness"] = 1
    /\ ControlWrites(ops, "brightness") # {}

\* C16: the parameters command silently skips (no error, the control's value
\* unchanged) a pair whose integer value lies outside [minimum, maximum] of the
\* control, and goes on to apply the remaining pairs.
C16_OutOfRangeSkipped ==
    [][ParametersStep =>
          \A i \in 1..Len(ret'.objv) :
             (/\ ret'.objv[i] = <<"brightness", Str9>>
              /\ OnlyPairOn(ret'.objv, i)
              /\ ret'.failAt = 0)
             =>
              /\ ret'.code = "ok"
              /\ dev'.ctrl["brightness"] = dev.ctrl["brightness"]
              /\ (i < Len(ret'.objv) /\ ret'.objv[i + 1] = <<"frame-rate", Str25>>) =>
                    v4l2c'.fps = 25]_vars

\* the pairs that reach the write to the device
WellFormed ==
    {<<"brightness", Str1>>, <<"brightness", Str9>>, <<"power-line-frequency", Str60Hz>>}

\* the write of pair i fails: it is the write chosen to fail, or the driver rejects
\* its value
WriteFails(objv, failAt, i) ==
    /\ objv[i] \in WellFormed
    /\ i = failAt \/ (objv[i] = <<"brightness", Str9>> /\ kern.range = "erange")

\* pair j is in force after the step
InForce(objv, j) ==
    CASE objv[j] = <<"brightness", Str1>> -> dev'.ctrl["brightness"] = 1
      [] objv[j] = <<"brightness", Str9>> -> dev'.ctrl["brightness"] = 2
      [] objv[j] = <<"power-line-frequency", Str60Hz>> ->
            dev'.ctrl["power-line-frequency"] = 2
      [] objv[j] = <<"frame-size", Str320x240>> ->
            v4l2c'.width = 320 /\ v4l2c'.height = 240 /\ v4l2c'.wantFormat = 0
      [] objv[j] = <<"frame-rate", Str25>> -> v4l2c'.fps = 25
      [] OTHER -> TRUE

\* what pair j is about is as before the step
Untouched(objv, j) ==
    /\ objv[j][1] \in KernelControls => dev'.ctrl[objv[j][1]] = dev.ctrl[objv[j][1]]
    /\ objv[j][1] = "frame-rate" => v4l2c'.fps = v4l2c.fps
    /\ objv[j][1] = "frame-size" =>
          (v4l2c'.width = v4l2c.width /\ v4l2c'.height = v4l2c.height)

\* C17: when the device write for pair k fails, the parameters command returns an
\* error that names pair k, applies none of the pairs after k and leaves every pair
\* before k applied.
C17_FailedWriteAborts ==
    [][ParametersStep =>
          \A k \in 1..Len(ret'.objv) :
             (/\ WriteFails(ret'.objv, ret'.failAt, k)
              /\ \A j \in 1..(k - 1) : ~WriteFails(ret'.objv, ret'.failAt, j))
             =>
              /\ ret'.code = "error"
              /\ ret'.msg = ErrorSetting(ret'.objv[k][1])
              /\ ops'[Len(ops')].op \in {"S_EXT_CTRLS", "S_CTRL"}
              /\ ops'[Len(ops')].arg.id = ret'.objv[k][1]
              /\ \A j \in 1..(k - 1) : InForce(ret'.objv, j)
              /\ \A j \in (k + 1)..Len(ret'.objv) :
                    (\A h \in 1..k : ret'.objv[h][1] # ret'.objv[j][1])
                    => Untouched(ret'.objv, j)]_vars

\* the brightness write, second of three pairs, has failed: the error names it, the
\* menu pair before it is in force, the frame rate after it is not
C17_Witness ==
    /\ ret.cmd = "parameters" /\ ret.code = "error"
    /\ ret.msg = ErrorSetting("brightness")
    /\ ret.objv = <<<<"power-line-frequency", Str60Hz>>, <<"brightness", Str1>>,
                    <<"frame-rate", Str25>>>>
    /\ ret.failAt = 2
    /\ dev.ctrl["power-line-frequency"] = 2
    /\ dev.ctrl["brightness"] = 0
    /\ v4l2c.fps = 15

\* the reads of the kernel's controls that render the result of a parameters command
ControlReads == {"G_EXT_CTRLS", "G_CTRL"}

\* the frame-size values that name a size, and the format each asks for
SizeStrings ==
    {Str320x240, Str320x240 \o <<"@", "M", "J", "P", "G">>,
     Str320x240 \o <<"@", "Y", "U", "Y", "V">>}

WantedBy(value) ==
    IF value = Str320x240 THEN 0
    ELSE IF value = Str320x240 \o <<"@", "M", "J", "P", "G">> THEN V4L2_PIX_FMT_MJPEG
    ELSE V4L2_PIX_FMT_YUYV

\* the size and the requested format are as before the step
SizeKept ==
    /\ v4l2c'.width = v4l2c.width
    /\ v4l2c'.height = v4l2c.height
    /\ v4l2c'.wantFormat = v4l2c.wantFormat

\* the size and the requested format are those of value
SizeTaken(value) ==
    /\ v4l2c'.width = 320
    /\ v4l2c'.height = 240
    /\ v4l2c'.wantFormat = WantedBy(value)

\* a parameters command that is a single frame-size write
SizeWrite ==
    /\ ParametersStep
    /\ Len(ret'.objv) = 1
    /\ ret'.objv[1][1] = "frame-size"

\* the step issued no device operation but the reads that render the result, and
\* left the device side, the state and the negotiated format alone
NoDeviceOperation ==
    /\ OpNames(ops') \subseteq ControlReads
    /\ dev' = dev
    /\ v4l2c'.running = v4l2c.running
    /\ v4l2c'.format = v4l2c.format

\* C18 as stated: a frame-size write changes width, height and requested format only
\* when the session is Stopped; while Capturing or in Error it is ignored; in no state
\* does it issue a device operation (the reads that render the command's result
\* aside).
C18_SizeOnlyWhenStopped ==
    [][SizeWrite =>
          /\ ret'.code = "ok"
          /\ NoDeviceOperation
          /\ v4l2c.running # 0 => SizeKept
          /\ (v4l2c.running = 0 /\ ret'.objv[1][2] \in SizeStrings) =>
                SizeTaken(ret'.objv[1][2])
          /\ ret'.objv[1][2] \notin SizeStrings => SizeKept]_vars

\* C18 (amended): a frame-size write changes width, height and requested format only
\* when the session is not Capturing (Stopped or in Error); while Capturing it is
\* silently ignored; in no state does it issue a device operation (the reads that
\* render the command's result aside).
C18_SizeUnlessCapturing ==
    [][SizeWrite =>
          /\ ret'.code = "ok"
          /\ NoDeviceOperation
          /\ v4l2c.running > 0 => SizeKept
          /\ (v4l2c.running <= 0 /\ ret'.objv[1][2] \in SizeStrings) =>
                SizeTaken(ret'.objv[1][2])
          /\ ret'.objv[1][2] \notin SizeStrings => SizeKept]_vars

\* 320x240@MJPG was written in the Error state a failed start() left, on a device
\* that accepts no format: size and requested format are the ones written
C18_Witness ==
    /\ ret.cmd = "parameters" /\ ret.code = "ok"
    /\ ret.objv = <<<<"frame-size", Str320x240 \o <<"@", "M", "J", "P", "G">>>>>>
    /\ kern.accept = {}
    /\ v4l2c.running = -1
    /\ v4l2c.width = 320 /\ v4l2c.height = 240
    /\ v4l2c.wantFormat = V4L2_PIX_FMT_MJPEG

\* the integer a frame-rate value stands for
RateOf(value) ==
    IF value = Str0 THEN 0 ELSE IF value = Str25 THEN 25
    ELSE IF value = Str200 THEN 200 ELSE 250

\* a parameters command that is a single frame-rate write of an integer
RateWrite ==
    /\ ParametersStep
    /\ Len(ret'.objv) = 1
    /\ ret'.objv[1][1] = "frame-rate"
    /\ ret'.objv[1][2] \in {Str0, Str25, Str200, Str250}

\* the rate is sent to the device by start() only, and start() sends the stored fps
RateSentByStart ==
    /\ "S_PARM" \in OpNames(ops') => StartStep
    /\ StartStep => \A a \in Range(Args(ops', "S_PARM")) : a = v4l2c.fps * 100

\* C19 as stated: a frame-rate write never fails and never touches the device; after
\* a write of integer v the stored fps is v clamped to the interval (0,200); the new
\* rate is sent to the device only by the next start().
C19_RateClamped ==
    [][/\ RateWrite =>
            /\ ret'.code = "ok"
            /\ NoDeviceOperation
            /\ v4l2c'.fps = IF RateOf(ret'.objv[1][2]) <= 0 THEN 1
                            ELSE IF RateOf(ret'.objv[1][2]) >= 200 THEN 199
                            ELSE RateOf(ret'.objv[1][2])
       /\ RateSentByStart]_vars

\* C19 (amended): a frame-rate write never fails and never touches the device; after
\* a write of integer v the stored fps is v when 0 < v < 200 and is unchanged for any
\* other v; the new rate is sent to the device only by the next start().
C19_RateTakenOrIgnored ==
    [][/\ RateWrite =>
            /\ ret'.code = "ok"
            /\ NoDeviceOperation
            /\ v4l2c'.fps = IF RateOf(ret'.objv[1][2]) > 0 /\ RateOf(ret'.objv[1][2]) < 200
                            THEN RateOf(ret'.objv[1][2])
                            ELSE v4l2c.fps
       /\ RateSentByStart]_vars

\* 250 was written while a capture that took the stored 25 to the device was
\* running at the 30 fps the device settled on: the stored fps is still 30
C19_Witness ==
    /\ ret.cmd = "parameters" /\ ret.code = "ok"
    /\ ret.objv = <<<<"frame-rate", Str250>>>>
    /\ Capturing
    /\ v4l2c.fps = 30

\* C20: in every reachable state the fps of the session, as the frame-rate control
\* renders it, is within the range that control advertises, 1 to 200, whatever the
\* device reports at open() or reads back at start().
C20_FpsInAdvertisedRange ==
    /\ v4l2c.fps >= Controls["frame-rate"].minimum
    /\ v4l2c.fps <= Controls["frame-rate"].maximum

----------------------------------------------------------------------------
(* Control names: FixupName *)

\* sizeof (qry.name), sizeof (qmenu.name)
NameSize == 32

\* the longest name the device of the model reports
MaxName == 4

\* the characters the names of the model are made of
NameChars == {"G", "a", " ", "_", "-"}

\* the argument of strchr in FixupName
Separators ==
    {" ", ".", ",", "/", "_", "+", "(", ")", "{", "}", "[", "]", "=", "&", "%", "$",
     ":", ";", "'", "#", "*", "~"}

UpperCase ==
    <<"A", "B", "C", "D", "E", "F", "G", "H", "I", "J", "K", "L", "M",
      "N", "O", "P", "Q", "R", "S", "T", "U", "V", "W", "X", "Y", "Z">>

LowerCase ==
    <<"a", "b", "c", "d", "e", "f", "g", "h", "i", "j", "k", "l", "m",
      "n", "o", "p", "q", "r", "s", "t", "u", "v", "w", "x", "y", "z">>

\* tolower
ToLower(ch) ==
    IF \E i \in 1..26 : UpperCase[i] = ch
    THEN LowerCase[CHOOSE i \in 1..26 : UpperCase[i] = ch]
    ELSE ch

\* the first loop of FixupName on one character
FixupChar(ch) == IF ToLower(ch) \in Separators THEN "-" ELSE ToLower(ch)

\* strchr(p, ch) as an index at or after p, 0 when there is none
StrChrFrom(s, p, ch) ==
    IF \E i \in p..Len(s) : s[i] = ch
    THEN CHOOSE i \in p..Len(s) : s[i] = ch /\ \A j \in p..(i - 1) : s[j] # ch
    ELSE 0

\* memmove(p, p + 1, end - p): the character at p is dropped
DropAt(s, p) == SubSeq(s, 1, p - 1) \o SubSeq(s, p + 1, Len(s))

\* the second loop of FixupName, from position p
RECURSIVE SqueezeDashes(_, _)
SqueezeDashes(s, p) ==
    LET q == StrChrFrom(s, p, "-")
    IN  IF q = 0 THEN s
        ELSE IF q < Len(s) /\ s[q + 1] = "-" THEN SqueezeDashes(DropAt(s, q), q)
        ELSE IF q = Len(s) THEN SubSeq(s, 1, q - 1)
        ELSE SqueezeDashes(s, q + 1)

\* FixupName on the string held in a buffer of length bytes: a string that fills the
\* buffer loses its last character to the terminator
FixupName(name, length) ==
    LET lowered == [i \in 1..Len(name) |-> FixupChar(name[i])]
        kept == IF length > 0 /\ Len(lowered) > length - 1
                THEN SubSeq(lowered, 1, length - 1)
                ELSE lowered
    IN  SqueezeDashes(kept, 1)

\* the strings of at most n characters
RECURSIVE NamesUpTo(_)
NamesUpTo(n) ==
    IF n = 0 THEN {<<>>}
    ELSE NamesUpTo(n - 1) \cup
         {Append(s, ch) : s \in {t \in NamesUpTo(n - 1) : Len(t) = n - 1},
                          ch \in NameChars}

\* a name as the device reports it, not yet fixed up
InitNames ==
    /\ kern \in {[name |-> s] : s \in NamesUpTo(MaxName)}
    /\ v4l2c = [name |-> kern.name]
    /\ dev = [open |-> TRUE]
    /\ ops = <<>>
    /\ ret = [cmd |-> "VIDIOC_QUERYCTRL", name |-> kern.name]
    /\ alive = TRUE

\* FixupName((char *) qry.name, sizeof (qry.name))
FixupNameCmd ==
    /\ ret.cmd = "VIDIOC_QUERYCTRL"
    /\ v4l2c' = [name |-> FixupName(v4l2c.name, NameSize)]
    /\ ret' = [cmd |-> "FixupName", name |-> FixupName(v4l2c.name, NameSize)]
    /\ UNCHANGED <<dev, kern, ops, alive>>

NextNames == FixupNameCmd

SpecNames == InitNames /\ [][NextNames]_vars

\* the words of a name: the longest runs of characters that are neither separators
\* nor hyphens, in lower case
IsWordChar(ch) == ToLower(ch) \notin Separators \cup {"-"}

RECURSIVE WordsOf(_, _, _)
WordsOf(s, i, word) ==
    IF i > Len(s) THEN (IF word = <<>> THEN <<>> ELSE <<word>>)
    ELSE IF IsWordChar(s[i]) THEN WordsOf(s, i + 1, Append(word, ToLower(s[i])))
    ELSE (IF word = <<>> THEN <<>> ELSE <<word>>) \o WordsOf(s, i + 1, <<>>)

RECURSIVE JoinWords(_)
JoinWords(words) ==
    IF words = <<>> THEN <<>>
    ELSE IF Len(words) = 1 THEN words[1]
    ELSE words[1] \o <<"-">> \o JoinWords(Tail(words))

\* the name the buffer can hold
Held(name) == SubSeq(name, 1, IF Len(name) > NameSize - 1 THEN NameSize - 1 ELSE Len(name))

\* C21: the normalized name is the name in lower case with each run of separators
\* replaced by one hyphen and with no hyphen at its start or at its end, that is,
\* the words of the name joined by single hyphens, for every name the buffer holds.
C21_NameNormalized ==
    ret.cmd = "FixupName" => ret.name = JoinWords(WordsOf(Held(kern.name), 1, <<>>))

----------------------------------------------------------------------------
(* The control registry: InitControls *)

V4L2_CID_BASE == 9963776
V4L2_CTRL_CLASS_CAMERA == 10092544
V4L2_CID_CAMERA_CLASS_BASE == 10094848

\* an id with or without V4L2_CTRL_FLAG_NEXT_CTRL, the bit 0x80000000
Id(n) == [id |-> n, next |-> FALSE]
NextOf(n) == [id |-> n, next |-> TRUE]

\* the most controls the device of the model reports in each of its two classes
MaxCtrls == 2

StrFrameSize == <<"f", "r", "a", "m", "e", "-", "s", "i", "z", "e">>
StrFrameRate == <<"f", "r", "a", "m", "e", "-", "r", "a", "t", "e">>

\* names as drivers spell them
RawGain == <<"G", "a", "i", "n">>
RawFrameSize == <<"F", "r", "a", "m", "e", " ", "S", "i", "z", "e">>
RawFrameRate == <<"f", "r", "a", "m", "e", "_", "_", "R", "a", "t", "e", ".">>
RawLeadRate == <<"(", "F", "r", "a", "m", "e", " ", "R", "a", "t", "e", ")">>
RawZoom == <<"Z", "o", "o", "m", ",", " ", "A", "b", "s">>

\* answers of VIDIOC_QUERYCTRL to the ids of the user class
BaseAnswers ==
    {[name |-> RawGain, type |-> "INTEGER", flags |-> {}],
     [name |-> RawGain, type |-> "STRING", flags |-> {}],
     [name |-> RawFrameSize, type |-> "MENU", flags |-> {}],
     [name |-> RawFrameRate, type |-> "INTEGER", flags |-> {}],
     [name |-> RawLeadRate, type |-> "INTEGER64", flags |-> {}],
     [name |-> RawFrameRate, type |-> "INTEGER", flags |-> {"DISABLED"}]}

\* answers of VIDIOC_QUERYCTRL to the walk of the camera class
CameraAnswers ==
    {[name |-> RawZoom, type |-> "INTEGER", flags |-> {}],
     [name |-> RawFrameRate, type |-> "INTEGER", flags |-> {}],
     [name |-> RawFrameSize, type |-> "CTRL_CLASS", flags |-> {}]}

RECURSIVE ListsUpTo(_, _)
ListsUpTo(S, n) ==
    IF n = 0 THEN {<<>>}
    ELSE ListsUpTo(S, n - 1) \cup
         {Append(l, x) : l \in {t \in ListsUpTo(S, n - 1) : Len(t) = n - 1}, x \in S}

\* devices by the controls they report: base[i] answers id V4L2_CID_BASE + i - 1,
\* camera[j] is the control V4L2_CID_CAMERA_CLASS_BASE + j of the camera class
EnumDevices ==
    {[base |-> b, camera |-> c] :
        b \in ListsUpTo(BaseAnswers, MaxCtrls), c \in ListsUpTo(CameraAnswers, MaxCtrls)}

\* the test of type and flags that both loops of InitControls make
Usable(qry) ==
    /\ qry.type \in {"INTEGER", "BOOLEAN", "MENU", "BUTTON", "INTEGER64"}
    /\ "DISABLED" \notin qry.flags

\* a test that reserves the name of the size control only
Reserved_SizeOnly(name) == name = StrFrameSize

\* these names are reserved
Reserved(name) == name = StrFrameSize \/ name = StrFrameRate

\* Tcl_CreateHashEntry and Tcl_SetHashValue on the table keyed by id
HashSet(table, key, value) ==
    [x \in DOMAIN table \cup {key} |-> IF x = key THEN value ELSE table[x]]

EmptyTable == [x \in {} |-> 0]

\* the entry made for an answer of the kernel
KernelEntry(qry, id, useOld) ==
    [id |-> id, name |-> FixupName(qry.name, NameSize), type |-> qry.type,
     flags |-> qry.flags, useOld |-> useOld, synthetic |-> FALSE]

\* the loop over the base controls, from position i on
RECURSIVE BaseControls(_, _, _)
BaseControls(k, i, ctrl) ==
    IF i > Len(k.base) THEN ctrl
    ELSE LET qry == k.base[i]
             id == Id(V4L2_CID_BASE + i - 1)
         IN  IF ~Usable(qry) \/ Reserved(FixupName(qry.name, NameSize))
             THEN BaseControls(k, i + 1, ctrl)
             ELSE BaseControls(k, i + 1,
                      HashSet(ctrl, id,
                          KernelEntry(qry, id, IF qry.type # "INTEGER64" THEN -1 ELSE 0)))

\* VIDIOC_QUERYCTRL with V4L2_CTRL_FLAG_NEXT_CTRL: the position of the first control
\* of the camera class after id, 0 when there is none
NextCtrl(k, id) ==
    LET after == {j \in 1..Len(k.camera) :
                     V4L2_CID_CAMERA_CLASS_BASE + j > id.id}
    IN  IF after = {} THEN 0 ELSE CHOOSE j \in after : \A l \in after : j <= l

\* the loop over the camera controls, about to query with id; a reserved name makes
\* the loop continue without a new id, and the same query is made over and over
RECURSIVE CameraControls(_, _, _)
CameraControls(k, id, ctrl) ==
    LET j == NextCtrl(k, id)
        qry == k.camera[j]
        next == NextOf(V4L2_CID_CAMERA_CLASS_BASE + j)
    IN  IF j = 0 THEN [returns |-> TRUE, ctrl |-> ctrl]
        ELSE IF ~Usable(qry) THEN CameraControls(k, next, ctrl)
        ELSE IF Reserved(FixupName(qry.name, NameSize))
        THEN [returns |-> FALSE, ctrl |-> ctrl]
        ELSE CameraControls(k, next,
                 HashSet(ctrl, id,
                     KernelEntry(qry, Id(V4L2_CID_CAMERA_CLASS_BASE + j), 0)))

\* the frame-size pseudo menu control and the frame-rate pseudo control
Fsize == [id |-> Id(0), name |-> StrFrameSize, type |-> "MENU", flags |-> {},
          useOld |-> 0, synthetic |-> TRUE]
Frate == [id |-> Id(1), name |-> StrFrameRate, type |-> "INTEGER", flags |-> {},
          useOld |-> 0, synthetic |-> TRUE]

\* the string mapping: under each name, the entries of that name (the one that the
\* table keeps for a name that two controls share depends on the order of the walk)
StringMapping(ctrl) ==
    [name \in {ctrl[x].name : x \in DOMAIN ctrl} |->
        {x \in DOMAIN ctrl : ctrl[x].name = name}]

\* InitControls on an opened device: the two tables, or no return
InitControls(k) ==
    LET kernel == CameraControls(k, NextOf(V4L2_CTRL_CLASS_CAMERA),
                                 BaseControls(k, 1, EmptyTable))
        ctrl == HashSet(HashSet(kernel.ctrl, Fsize.id, Fsize), Frate.id, Frate)
    IN  IF kernel.returns
        THEN [returns |-> TRUE, ctrl |-> ctrl, nctrl |-> StringMapping(ctrl)]
        ELSE [returns |-> FALSE, ctrl |-> kernel.ctrl, nctrl |-> EmptyTable]

StrMinimum == <<"-", "m", "i", "n", "i", "m", "u", "m">>
StrMaximum == <<"-", "m", "a", "x", "i", "m", "u", "m">>
StrDefault == <<"-", "d", "e", "f", "a", "u", "l", "t">>
StrStep == <<"-", "s", "t", "e", "p">>
StrValues == <<"-", "v", "a", "l", "u", "e", "s">>

\* the keys that GetControls appends for one control
ControlKeys(vctrl) ==
    <<vctrl.name>> \o
    CASE vctrl.type = "INTEGER" ->
            <<vctrl.name \o StrMinimum, vctrl.name \o StrMaximum,
              vctrl.name \o StrDefault, vctrl.name \o StrStep>>
      [] vctrl.type = "BOOLEAN" ->
            <<vctrl.name \o StrMinimum, vctrl.name \o StrMaximum,
              vctrl.name \o StrDefault>>
      [] vctrl.type = "MENU" -> <<vctrl.name \o StrValues>>
      [] OTHER -> <<>>

\* ids as the numbers they are
Before(x, y) == (~x.next /\ y.next) \/ (x.next = y.next /\ x.id <= y.id)

\* the keys of the list that GetControls builds, the table walked by ascending id
RECURSIVE ListedKeys(_, _)
ListedKeys(ctrl, todo) ==
    IF todo = {} THEN <<>>
    ELSE LET x == CHOOSE y \in todo : \A z \in todo : Before(y, z)
         IN  ControlKeys(ctrl[x]) \o ListedKeys(ctrl, todo \ {x})

\* a device about to be opened
InitEnum ==
    /\ kern \in EnumDevices
    /\ v4l2c = [ctrl |-> EmptyTable, nctrl |-> EmptyTable]
    /\ dev = [open |-> FALSE]
    /\ ops = <<>>
    /\ ret = [cmd |-> "none", code |-> "ok", keys |-> <<>>]
    /\ alive = FALSE

\* v4l2 open: the registry is filled; an enumeration that does not return leaves
\* the command, and the interpreter with it, in the loop
OpenEnumCmd ==
    /\ ret.cmd = "none"
    /\ LET r == InitControls(kern)
       IN  /\ v4l2c' = [ctrl |-> r.ctrl, nctrl |-> r.nctrl]
           /\ alive' = r.returns
           /\ ret' = [cmd |-> "open", code |-> IF r.returns THEN "ok" ELSE "looping",
                      keys |-> <<>>]
    /\ dev' = [open |-> TRUE]
    /\ UNCHANGED <<kern, ops>>

\* v4l2 parameters devid, without pairs
ListCmd ==
    /\ alive
    /\ ret' = [cmd |-> "parameters", code |-> "ok",
               keys |-> ListedKeys(v4l2c.ctrl, DOMAIN v4l2c.ctrl)]
    /\ UNCHANGED <<v4l2c, dev, kern, ops, alive>>

\* v4l2 close devid: InitControls to release, then both tables deleted
ReleaseCmd ==
    /\ alive
    /\ v4l2c' = [ctrl |-> EmptyTable, nctrl |-> EmptyTable]
    /\ dev' = [open |-> FALSE]
    /\ alive' = FALSE
    /\ ret' = [cmd |-> "close", code |-> "ok", keys |-> <<>>]
    /\ UNCHANGED <<kern, ops>>

NextEnum == OpenEnumCmd \/ ListCmd \/ ReleaseCmd

SpecEnum == InitEnum /\ [][NextEnum]_vars

\* the entries of the registry with a name
Named(name) == {x \in DOMAIN v4l2c.ctrl : v4l2c.ctrl[x].name = name}

\* how often a key is listed
Listed(keys, key) == Cardinality({i \in 1..Len(keys) : keys[i] = key})

\* C22: once the enumeration of a device has returned, the registry holds exactly one
\* control named frame-size and exactly one named frame-rate, both synthetic, and so
\* no control reported by the kernel under either name; the list that parameters
\* returns has each of the two names exactly once.
C22_ReservedNames ==
    /\ alive =>
          \A name \in {StrFrameSize, StrFrameRate} :
             /\ Cardinality(Named(name)) = 1
             /\ \A x \in Named(name) : v4l2c.ctrl[x].synthetic
    /\ ret.cmd = "parameters" =>
          \A name \in {StrFrameSize, StrFrameRate} : Listed(ret.keys, name) = 1

\* a device that reports a Frame Size and a frame__Rate. among its base controls
\* was opened and listed
C22_Witness ==
    /\ ret.cmd = "parameters"
    /\ kern.base = <<[name |-> RawFrameSize, type |-> "MENU", flags |-> {}],
                     [name |-> RawFrameRate, type |-> "INTEGER", flags |-> {}]>>
    /\ kern.camera # <<>>

----------------------------------------------------------------------------
(* Orientation, mirror and the photo image block *)

\* the longest side of an image of the model, in pixels
MaxSide == 3

\* a % b of C for b > 0: the remainder has the sign of a
CRem(a, b) == IF a >= 0 THEN a % b ELSE 0 - ((0 - a) % b)

\* the chain of comparisons that CMD_orientation and DataToPhoto make
Snap(degrees) ==
    IF degrees < 45 THEN 0
    ELSE IF degrees < 135 THEN 90
    ELSE IF degrees < 225 THEN 180
    ELSE IF degrees < 315 THEN 270
    ELSE 0

\* v4l2 orientation devid degrees
Orientation(c, arg) ==
    LET degrees == Tcl_GetIntFromObj(arg)
    IN  IF ~degrees.ok THEN [c |-> c, code |-> "error"]
        ELSE [c |-> [c EXCEPT !.rotate = Snap(CRem(degrees.val, 360))], code |-> "ok"]

\* v4l2 mirror devid x y
Mirror(c, x, y) ==
    [c EXCEPT !.mirror = (IF x THEN 1 ELSE 0) + (IF y THEN 2 ELSE 0)]

\* pixel size and channel offsets of the block by format: grey, RGB24, BGR32
Layouts ==
    {[pixelSize |-> 1, offset |-> <<0, 0, 0>>],
     [pixelSize |-> 3, offset |-> <<0, 1, 2>>],
     [pixelSize |-> 4, offset |-> <<2, 1, 0>>]}

\* the block as set up before it is turned: pixelPtr counts from the start of the data
PlainBlock(c) ==
    [pixelPtr |-> 0, pixelSize |-> c.layout.pixelSize, offset |-> c.layout.offset,
     width |-> c.width, height |-> c.height, pitch |-> c.layout.pixelSize * c.width]

\* case 270 with the pixel pointer set one row too far
Rotate270_PastEnd(block, width, height) ==
    [block EXCEPT !.pitch = block.pixelSize,
                  !.pixelPtr = @ + width * block.pixelSize * height,
                  !.pixelSize = @ * (0 - width),
                  !.width = height, !.height = width]

Rotate270(block, width, height) ==
    [block EXCEPT !.pitch = block.pixelSize,
                  !.pixelPtr = @ + width * block.pixelSize * (height - 1),
                  !.pixelSize = @ * (0 - width),
                  !.width = height, !.height = width]

Rotate180(block, width, height) ==
    [block EXCEPT !.pitch = 0 - @,
                  !.pixelPtr = @ + (width * height - 1) * block.pixelSize,
                  !.pixelSize = 0 - @]

Rotate90(block, width, height) ==
    [block EXCEPT !.pitch = 0 - block.pixelSize,
                  !.pixelPtr = @ + (width - 1) * block.pixelSize,
                  !.pixelSize = @ * width,
                  !.width = height, !.height = width]

\* switch (rot)
Rotated(block, width, height, rot) ==
    CASE rot = 270 -> Rotate270(block, width, height)
      [] rot = 180 -> Rotate180(block, width, height)
      [] rot = 90 -> Rotate90(block, width, height)
      [] OTHER -> block

\* mirror in X
MirrorX(block) ==
    [block EXCEPT !.pixelPtr = @ + (block.width - 1) * block.pixelSize,
                  !.pixelSize = 0 - @]

\* mirror in Y
MirrorY(block) ==
    [block EXCEPT !.pixelPtr = @ + block.pitch * (block.height - 1),
                  !.pitch = 0 - @]

\* the block that GetImage and DataToPhoto hand to Tk_PhotoPutBlock
TurnBlock(block, width, height, rotate, mirror) ==
    LET rot == IF mirror % 4 = 3 THEN (rotate + 180) % 360 ELSE rotate
        turned == Rotated(block, width, height, rot)
    IN  IF mirror % 4 = 2 THEN MirrorX(turned)
        ELSE IF mirror % 4 = 1 THEN MirrorY(turned)
        ELSE turned

\* arguments of orientation
DegreeArgs ==
    {<<"0">>, <<"4", "4">>, <<"4", "5">>, <<"1", "3", "4">>, <<"1", "3", "5">>,
     <<"2", "2", "5">>, <<"3", "1", "4">>, <<"3", "1", "5">>, <<"3", "6", "0">>,
     <<"4", "5", "0">>, <<"6", "3", "0">>, <<"-", "4", "5">>, <<"-", "4", "6">>,
     <<"-", "9", "0">>, <<"-", "2", "7", "0">>, <<"l", "e", "f", "t">>}

\* a session with a frame ready, as open leaves its orientation and mirror flags
InitPhoto ==
    /\ kern \in {[width |-> w, height |-> h, layout |-> l] :
                    w \in 1..MaxSide, h \in 1..MaxSide, l \in Layouts}
    /\ v4l2c = [width |-> kern.width, height |-> kern.height, layout |-> kern.layout,
                rotate |-> 0, mirror |-> 0]
    /\ dev = [open |-> TRUE]
    /\ ops = <<>>
    /\ ret = [cmd |-> "open", code |-> "ok"]
    /\ alive = TRUE

OrientationCmd ==
    /\ \E arg \in DegreeArgs :
          LET r == Orientation(v4l2c, arg)
          IN  /\ v4l2c' = r.c
              /\ ret' = [cmd |-> "orientation", code |-> r.code, arg |-> arg]
    /\ UNCHANGED <<dev, kern, ops, alive>>

MirrorCmd ==
    /\ \E x \in BOOLEAN, y \in BOOLEAN : v4l2c' = Mirror(v4l2c, x, y)
    /\ ret' = [cmd |-> "mirror", code |-> "ok"]
    /\ UNCHANGED <<dev, kern, ops, alive>>

\* v4l2 image devid photo, all channels: the block put into the photo image
PhotoCmd ==
    /\ ret' = [cmd |-> "image", code |-> "ok",
               block |-> TurnBlock(PlainBlock(v4l2c), v4l2c.width, v4l2c.height,
                                   v4l2c.rotate, v4l2c.mirror)]
    /\ UNCHANGED <<v4l2c, dev, kern, ops, alive>>

NextPhoto == OrientationCmd \/ MirrorCmd \/ PhotoCmd

SpecPhoto == InitPhoto /\ [][NextPhoto]_vars

\* the address of channel ch of the pixel in column x and row y of a block
PixelAddr(block, x, y, ch) ==
    block.pixelPtr + y * block.pitch + x * block.pixelSize + block.offset[ch]

\* an image is the sequence of its rows, a row the sequence of its pixels, a pixel
\* its three channels; the image read through a block, with each byte of the data
\* holding its own address
ReadBlock(block) ==
    [y \in 1..block.height |->
        [x \in 1..block.width |->
            [ch \in 1..3 |-> PixelAddr(block, x - 1, y - 1, ch)]]]

\* the naive copies
Reverse(s) == [i \in 1..Len(s) |-> s[Len(s) + 1 - i]]
Transpose(img) == [i \in 1..Len(img[1]) |-> [j \in 1..Len(img) |-> img[j][i]]]
FlipX(img) == [y \in 1..Len(img) |-> Reverse(img[y])]
FlipY(img) == Reverse(img)

\* a quarter turn against the clock, and n of them
QuarterTurn(img) == FlipY(Transpose(img))

RECURSIVE Turns(_, _)
Turns(img, n) == IF n = 0 THEN img ELSE Turns(QuarterTurn(img), n - 1)

\* rotation by rotate degrees, then the mirror flags: 2 mirrors in X, 1 in Y
Naive(img, rotate, mirror) ==
    LET turned == Turns(img, rotate \div 90)
        inX == IF (mirror \div 2) % 2 = 1 THEN FlipX(turned) ELSE turned
    IN  IF mirror % 2 = 1 THEN FlipY(inX) ELSE inX

\* C23: for each rotation, each mirror setting and each image size, the image read
\* through the block that the stride, offset and sign manipulation produces equals
\* the naive pixel-by-pixel rotation and mirroring of the image, and every address
\* read lies inside the data of the image.
C23_BlockIsNaiveCopy ==
    ret.cmd = "image" =>
        /\ ReadBlock(ret.block)
              = Naive(ReadBlock(PlainBlock(v4l2c)), v4l2c.rotate, v4l2c.mirror)
        /\ \A y \in 0..(ret.block.height - 1), x \in 0..(ret.block.width - 1),
              ch \in 1..3 :
              PixelAddr(ret.block, x, y, ch)
                 \in 0..(v4l2c.width * v4l2c.height * v4l2c.layout.pixelSize - 1)

\* an image of 2 by 3 pixels of RGB24, turned by 270 degrees and mirrored in X
C23_Witness ==
    /\ ret.cmd = "image"
    /\ v4l2c.width = 2 /\ v4l2c.height = 3 /\ v4l2c.layout.pixelSize = 3
    /\ v4l2c.rotate = 270 /\ v4l2c.mirror = 2
    /\ ret.block.width = 3 /\ ret.block.height = 2

----------------------------------------------------------------------------
(* Colour space conversion: ConvertToYUV, ConvertFromYUV *)

\* i >> n of C on an int: the arithmetic shift, which rounds down
Shr(i, n) == IF i >= 0 THEN i \div (2 ^ n) ELSE 0 - (((0 - i) + (2 ^ n) - 1) \div (2 ^ n))

sat(i) == IF i >= 255 THEN 255 ELSE IF i < 0 THEN 0 ELSE i

\* one step of the loop of ConvertToYUV: two pixels <<r, g, b>> to four bytes
ConvertToYUV(p1, p2, isvu) ==
    LET y1 == sat(Shr(4224 * p1[1] + 8256 * p1[2] + 1600 * p1[3], 14) + 16)
        y2 == sat(Shr(4224 * p2[1] + 8256 * p2[2] + 1600 * p2[3], 14) + 16)
        r == p1[1] + p2[1]
        g == p1[2] + p2[2]
        b == p1[3] + p2[3]
        u == sat(Shr(7168 * b - 2432 * r - 4736 * g, 15) + 128)
        v == sat(Shr(7168 * r - 6016 * g - 1152 * b, 15) + 128)
    IN  IF isvu THEN <<y1, v, y2, u>> ELSE <<y1, u, y2, v>>

\* one step of the loop of ConvertFromYUV: four bytes to two pixels
ConvertFromYUV(in, isvu) ==
    LET u == IF isvu THEN in[4] ELSE in[2]
        v == IF isvu THEN in[2] ELSE in[4]
        r == Shr(22987 * (v - 128), 14)
        g == Shr((0 - 5636) * (u - 128) - 11698 * (v - 128), 14)
        b == Shr(29049 * (u - 128), 14)
    IN  <<<<sat(in[1] + r), sat(in[1] + g), sat(in[1] + b)>>,
          <<sat(in[3] + r), sat(in[3] + g), sat(in[3] + b)>>>>

Grey(v) == <<v, v, v>>

\* two neighbouring pixels of a grey image, uniform or rising by one, to be written
\* as YUYV or as YVYU
InitYUV ==
    /\ kern \in {[isvu |-> i, rgb |-> <<Grey(v), Grey(IF v + s > 255 THEN v ELSE v + s)>>] :
                    i \in BOOLEAN, v \in 0..255, s \in {0, 1}}
    /\ v4l2c = [isvu |-> kern.isvu]
    /\ dev = [open |-> TRUE, frame |-> <<>>]
    /\ ops = <<>>
    /\ ret = [cmd |-> "open", rgb |-> <<>>]
    /\ alive = TRUE

\* v4l2 writephoto devid photo on a loopback device of a YUV format
ToYUVCmd ==
    /\ dev.frame = <<>>
    /\ dev' = [dev EXCEPT !.frame = ConvertToYUV(kern.rgb[1], kern.rgb[2], v4l2c.isvu)]
    /\ ret' = [cmd |-> "writephoto", rgb |-> kern.rgb]
    /\ UNCHANGED <<v4l2c, kern, ops, alive>>

\* v4l2 image devid photo on a capture device that delivers the frame written
FromYUVCmd ==
    /\ dev.frame # <<>>
    /\ ret' = [cmd |-> "image", rgb |-> ConvertFromYUV(dev.frame, v4l2c.isvu)]
    /\ UNCHANGED <<v4l2c, dev, kern, ops, alive>>

NextYUV == ToYUVCmd \/ FromYUVCmd

SpecYUV == InitYUV /\ [][NextYUV]_vars

\* C24: an RGB image that is uniformly grey or a smooth grey gradient, converted to
\* packed YUV 4:2:2 and back, has every channel of every pixel within 2 of its
\* original value, for every grey level from 0 to 255.
C24_RoundTripWithin2 ==
    ret.cmd = "image" =>
        \A p \in 1..2, ch \in 1..3 :
            /\ ret.rgb[p][ch] - kern.rgb[p][ch] <= 2
            /\ kern.rgb[p][ch] - ret.rgb[p][ch] <= 2

----------------------------------------------------------------------------
(* Writing frames to a loopback device *)

\* write(fd, data, length): length bytes go to the device, read bytes of the
\* supplied bytes of pixel data were looked at to produce them
WriteOp(length, read, supplied) ==
    [op |-> "write", arg |-> [length |-> length, read |-> read, supplied |-> supplied]]

\* the bytes of a block that ConvertToYUV looks at: the loop takes the pixels two
\* at a time until width * height * 2 bytes are produced
YUVRead(block) ==
    LET pixels == 2 * ((block.width * block.height + 1) \div 2)
        last == IF block.offset[3] > block.offset[1] THEN block.offset[3]
                ELSE block.offset[1]
    IN  (pixels - 1) * block.pixelSize + last + 1

\* the bytes of a block that ConvertToGREY looks at
GREYRead(block) ==
    LET last == IF block.offset[3] > block.offset[1] THEN block.offset[3]
                ELSE block.offset[1]
    IN  (block.width * block.height - 1) * block.pixelSize + last + 1

YUVFormats == {V4L2_PIX_FMT_YUYV, V4L2_PIX_FMT_YVYU}

\* the block that CMD_write lays over a byte array of length bytes
ArrayBlock(c, length) ==
    LET size == IF length = c.loopWidth * c.loopHeight * 4 THEN 4
                ELSE IF length = c.loopWidth * c.loopHeight THEN 1
                ELSE 3
    IN  [pixelSize |-> size, offset |-> IF size = 1 THEN <<0, 0, 0>> ELSE <<0, 1, 2>>,
         width |-> c.loopWidth, height |-> c.loopHeight,
         pitch |-> size * c.loopWidth]

\* the result of write(): n == -1 is an error, anything else is success
Written(op, fails) ==
    IF fails THEN [code |-> "error", msg |-> "write error", ops |-> <<op>>]
    ELSE [code |-> "ok", msg |-> "", ops |-> <<op>>]

\* a length check that lets arrays of two bytes per pixel pass as well
BadLength_AlsoTwo(c, length) ==
    /\ length # c.loopWidth * c.loopHeight * 3
    /\ length # c.loopWidth * c.loopHeight * 4
    /\ length # c.loopWidth * c.loopHeight * 2
    /\ length # c.loopWidth * c.loopHeight

BadLength(c, length) ==
    /\ length # c.loopWidth * c.loopHeight * 3
    /\ length # c.loopWidth * c.loopHeight * 4
    /\ length # c.loopWidth * c.loopHeight

\* v4l2 write devid bytearray
Write(c, length, fails) ==
    IF ~c.isLoopDev
    THEN [code |-> "error", msg |-> "not a loop device", ops |-> <<>>]
    ELSE IF BadLength(c, length)
    THEN [code |-> "error", msg |-> "unsupported width or height", ops |-> <<>>]
    ELSE IF c.loopFormat \in YUVFormats \cup {V4L2_PIX_FMT_GREY}
            /\ ~(c.loopFormat = V4L2_PIX_FMT_GREY /\ ArrayBlock(c, length).pixelSize = 1)
    THEN Written(WriteOp(c.loopWidth * c.loopHeight * 2,
                         YUVRead(ArrayBlock(c, length)), length), fails)
    ELSE Written(WriteOp(length, length, length), fails)

\* v4l2 writephoto devid photo, for the block that Tk_PhotoGetImage returns
WritePhoto(c, block, fails) ==
    LET supplied == block.pitch * block.height
        length == block.pitch * block.height * block.pixelSize
    IN  IF ~c.isLoopDev
        THEN [code |-> "error", msg |-> "not a loop device", ops |-> <<>>]
        ELSE IF block.pitch # block.width * block.pixelSize \/ block.pixelSize # 4
        THEN [code |-> "error", msg |-> "unsupported photo format", ops |-> <<>>]
        ELSE IF block.width # c.loopWidth \/ block.height # c.loopHeight
        THEN [code |-> "error", msg |-> "unsupported width or height", ops |-> <<>>]
        ELSE IF c.loopFormat \in YUVFormats
        THEN Written(WriteOp(block.width * block.height * 2, YUVRead(block), supplied),
                     fails)
        ELSE IF c.loopFormat = V4L2_PIX_FMT_GREY
        THEN Written(WriteOp(block.width * block.height, GREYRead(block), supplied),
                     fails)
        ELSE Written(WriteOp(length, length, supplied), fails)

\* the block of a photo image of Tk
PhotoBlock(w, h) ==
    [pixelSize |-> 4, offset |-> <<0, 1, 2>>, width |-> w, height |-> h, pitch |-> 4 * w]

\* what VIDIOC_G_FMT reports when a device is opened: capture devices, and loopback
\* devices set to a format and a size
WriteDevices ==
    {[loop |-> FALSE, format |-> V4L2_PIX_FMT_YUYV, width |-> 1, height |-> 2]} \cup
    {[loop |-> TRUE, format |-> f, width |-> w, height |-> h] :
        f \in Range(FormatsLoop), w \in 1..MaxSide, h \in 1..MaxSide}

\* the session as open creates it
InitWrite ==
    /\ kern \in WriteDevices
    /\ v4l2c = [isLoopDev |-> kern.loop,
                loopFormat |-> IF kern.loop THEN kern.format ELSE 0,
                loopWidth |-> IF kern.loop THEN kern.width ELSE 0,
                loopHeight |-> IF kern.loop THEN kern.height ELSE 0]
    /\ dev = [open |-> TRUE]
    /\ ops = <<>>
    /\ ret = [cmd |-> "open", code |-> "ok", msg |-> "vdev0"]
    /\ alive = TRUE

WriteCmd ==
    /\ \E length \in 0..(4 * MaxSide * MaxSide + 1), fails \in BOOLEAN :
          LET r == Write(v4l2c, length, fails)
          IN  /\ ops' = r.ops
              /\ ret' = [cmd |-> "write", code |-> r.code, msg |-> r.msg,
                         length |-> length]
    /\ UNCHANGED <<v4l2c, dev, kern, alive>>

WritePhotoCmd ==
    /\ \E w \in 1..MaxSide, h \in 1..MaxSide, fails \in BOOLEAN :
          LET r == WritePhoto(v4l2c, PhotoBlock(w, h), fails)
          IN  /\ ops' = r.ops
              /\ ret' = [cmd |-> "writephoto", code |-> r.code, msg |-> r.msg,
                         width |-> w, height |-> h]
    /\ UNCHANGED <<v4l2c, dev, kern, alive>>

NextWrite == WriteCmd \/ WritePhotoCmd

SpecWrite == InitWrite /\ [][NextWrite]_vars

FrameLengths ==
    {v4l2c.loopWidth * v4l2c.loopHeight * b : b \in {1, 3, 4}}

\* C25: write() on a loopback session is rejected with an error, and nothing is
\* written to the device, for every byte array whose length is none of width x height
\* x 1, x 3 and x 4 for the size of the sink; write() on a session that is not a
\* loopback sink is always rejected with an error and nothing is written.
C25_WriteRejected ==
    (ret.cmd = "write" /\ (~v4l2c.isLoopDev \/ ret.length \notin FrameLengths)) =>
        ret.code = "error" /\ ops = <<>>

\* an array of 2 bytes was written to a sink of 1 by 2 pixels: it was sent on, while
\* an array of 5 bytes is rejected
C25_Witness ==
    /\ ret.cmd = "write" /\ ret.length = 5 /\ ret.code = "error"
    /\ v4l2c.isLoopDev /\ v4l2c.loopWidth = 1 /\ v4l2c.loopHeight = 2
    /\ v4l2c.loopFormat = V4L2_PIX_FMT_RGB24

\* bytes per pixel of a wire format
BytesPerPixel(format) ==
    CASE format = V4L2_PIX_FMT_GREY -> 1
      [] format \in YUVFormats -> 2
      [] format \in {V4L2_PIX_FMT_RGB24, V4L2_PIX_FMT_BGR24} -> 3
      [] format \in {V4L2_PIX_FMT_RGB32, V4L2_PIX_FMT_BGR32} -> 4

\* C26: every successful write() or writephoto hands the sink exactly one frame of
\* width x height x B bytes, B the bytes per pixel of the sink's format, and reads no
\* byte past the end of the pixel data supplied; writephoto rejects a pixel block
\* whose width or height differs from the sink's size.
C26_OneFrameInWireFormat ==
    /\ (ret.cmd \in {"write", "writephoto"} /\ ret.code = "ok") =>
          /\ Len(ops) = 1
          /\ ops[1].arg.length
                = v4l2c.loopWidth * v4l2c.loopHeight * BytesPerPixel(v4l2c.loopFormat)
          /\ ops[1].arg.read <= ops[1].arg.supplied
    /\ (ret.cmd = "writephoto" /\ v4l2c.isLoopDev
          /\ (ret.width # v4l2c.loopWidth \/ ret.height # v4l2c.loopHeight)) =>
          ret.code = "error" /\ ops = <<>>

----------------------------------------------------------------------------
(* Module initialization: V4l2_Init *)

\* the threads that load the package, and the most calls each of them makes
Threads == {1, 2}
MaxCalls == 2

\* a test with the mutex held that lets every caller link
AlreadyLinked_Never(initialized) == FALSE

\* the test made with the mutex held: nothing is linked a second time
AlreadyLinked(initialized) == initialized # 0

\* nobody runs V4l2_Init, nothing is linked; libv4l2.so.0 can be linked, or cannot,
\* or sometimes can
InitLink ==
    /\ kern \in {[libv4l2 |-> l] : l \in {"present", "missing", "flaky"}}
    /\ v4l2c = [v4l2Initialized |-> 0, v4l2Mutex |-> 0, links |-> 0]
    /\ dev = [pc |-> [t \in Threads |-> "idle"], calls |-> [t \in Threads |-> 0]]
    /\ ops = <<>>
    /\ ret = [cmd |-> "none", code |-> "ok", thread |-> 0]
    /\ alive = TRUE

Goto(t, label) == dev' = [dev EXCEPT !.pc[t] = label]

\* a thread enters V4l2_Init
EnterInit(t) ==
    /\ dev.pc[t] = "idle" /\ dev.calls[t] < MaxCalls
    /\ dev' = [dev EXCEPT !.pc[t] = "check", !.calls[t] = @ + 1]
    /\ UNCHANGED <<v4l2c, kern, ops, ret, alive>>

\* if (!v4l2Initialized), read without the mutex: a thread may still see the 0 that
\* was there before another thread stored 1
FirstCheck(t) ==
    /\ dev.pc[t] = "check"
    /\ \E seen \in {v4l2c.v4l2Initialized, 0} :
          Goto(t, IF seen = 0 THEN "lock" ELSE "doInit")
    /\ UNCHANGED <<v4l2c, kern, ops, ret, alive>>

\* Tcl_MutexLock(&v4l2Mutex)
Lock(t) ==
    /\ dev.pc[t] = "lock" /\ v4l2c.v4l2Mutex = 0
    /\ v4l2c' = [v4l2c EXCEPT !.v4l2Mutex = t]
    /\ Goto(t, "recheck")
    /\ UNCHANGED <<kern, ops, ret, alive>>

\* if (v4l2Initialized) { Tcl_MutexUnlock(&v4l2Mutex); goto doInit; }
SecondCheck(t) ==
    /\ dev.pc[t] = "recheck"
    /\ IF AlreadyLinked(v4l2c.v4l2Initialized)
       THEN /\ v4l2c' = [v4l2c EXCEPT !.v4l2Mutex = 0]
            /\ Goto(t, "doInit")
            /\ ops' = ops
       ELSE /\ v4l2c' = v4l2c
            /\ Goto(t, "link")
            /\ ops' = <<[op |-> "dlopen",
                         arg |-> [thread |-> t, owner |-> v4l2c.v4l2Mutex,
                                  links |-> v4l2c.links]]>>
    /\ UNCHANGED <<kern, ret, alive>>

\* dlopen and dlsym of libv4l2 (and of libudev, which may be missing): on failure
\* the mutex is unlocked and the call returns TCL_ERROR
Link(t) ==
    /\ dev.pc[t] = "link"
    /\ \E linked \in {kern.libv4l2 # "missing", kern.libv4l2 = "present"} :
          IF linked
          THEN /\ v4l2c' = [v4l2c EXCEPT !.links = @ + 1]
               /\ Goto(t, "set")
               /\ ret' = ret
          ELSE /\ v4l2c' = [v4l2c EXCEPT !.v4l2Mutex = 0]
               /\ Goto(t, "idle")
               /\ ret' = [cmd |-> "V4l2_Init", code |-> "error", thread |-> t]
    /\ UNCHANGED <<kern, ops, alive>>

\* v4l2Initialized = 1
SetInitialized(t) ==
    /\ dev.pc[t] = "set"
    /\ v4l2c' = [v4l2c EXCEPT !.v4l2Initialized = 1]
    /\ Goto(t, "unlock")
    /\ UNCHANGED <<kern, ops, ret, alive>>

\* Tcl_MutexUnlock(&v4l2Mutex)
Unlock(t) ==
    /\ dev.pc[t] = "unlock"
    /\ v4l2c' = [v4l2c EXCEPT !.v4l2Mutex = 0]
    /\ Goto(t, "doInit")
    /\ UNCHANGED <<kern, ops, ret, alive>>

\* doInit: the data of the interpreter and the v4l2 command
DoInit(t) ==
    /\ dev.pc[t] = "doInit"
    /\ Goto(t, "idle")
    /\ ret' = [cmd |-> "V4l2_Init", code |-> "ok", thread |-> t]
    /\ UNCHANGED <<v4l2c, kern, ops, alive>>

NextLink ==
    \E t \in Threads :
        \/ EnterInit(t) \/ FirstCheck(t) \/ Lock(t) \/ SecondCheck(t)
        \/ Link(t) \/ SetInitialized(t) \/ Unlock(t) \/ DoInit(t)

SpecLink == InitLink /\ [][NextLink]_vars

\* the thread is in the dynamic-linking section
Linking(t) == dev.pc[t] \in {"link", "set"}

\* C27: whatever the interleaving of concurrent V4l2_Init calls, the dynamic-linking
\* section runs only with the mutex held, the mutex is released on every way out
\* (success, link failure, already initialized), and once a call has linked with
\* success no concurrent or later call does the linking work again.
C27_LinkOnceUnderMutex ==
    /\ \A t \in Threads : Linking(t) => v4l2c.v4l2Mutex = t
    /\ \A t \in Threads : dev.pc[t] \in {"idle", "check", "lock", "doInit"} =>
                             v4l2c.v4l2Mutex # t
    /\ v4l2c.links <= 1
    /\ \A t \in Threads : dev.pc[t] = "link" => v4l2c.links = 0

\* thread 2 came to the mutex while thread 1 was linking, found the work done when
\* it got the mutex, and is leaving without having linked
C27_Witness ==
    /\ v4l2c.links = 1 /\ v4l2c.v4l2Initialized = 1
    /\ dev.pc[2] = "doInit" /\ dev.calls[2] = 1
    /\ ops # <<>> /\ ops[1].arg.thread = 1
    /\ ret.cmd = "none"

\* the sector of 90 degrees around 0, 90, 180 or 270 that holds d modulo 360
SectorOf(d) == ((((d % 360) + 45) \div 90) % 4) * 90

\* the integer an argument of orientation stands for
DegreesOf(arg) == Tcl_GetIntFromObj(arg).val

\* C28: orientation(d) stores, for every integer d, negative values and values of
\* 360 or more included, the member of {0, 90, 180, 270} whose 45-degree sector
\* holds d modulo 360 (boundaries at 45, 135, 225, 315), so that d and d + 360 store
\* the same value; the stored rotation is one of 0, 90, 180, 270 in every state.
C28_OrientationSnapped ==
    /\ v4l2c.rotate \in {0, 90, 180, 270}
    /\ (ret.cmd = "orientation" /\ ret.code = "ok") =>
          v4l2c.rotate = SectorOf(DegreesOf(ret.arg))

----------------------------------------------------------------------------
(* Closing a session, and commands that name no session *)

\* commands that look the device id up in the table of sessions
LookupCommands == {"close", "start", "stop", "state", "counters"}

\* devNotFound: the id "vdev0" of the session once it is closed, or an id that open
\* has never handed out
NotFoundCmd ==
    /\ \E cmd \in LookupCommands, id \in {"vdev0", "vdev1"} :
          /\ id = "vdev0" => ~alive
          /\ ret' = [cmd |-> cmd, code |-> "error", msg |-> "device not found"]
    /\ UNCHANGED <<v4l2c, dev, kern, ops, alive>>

\* a session on the plain device: start, stop, frames, close, and unknown ids
InitClose == InitWith({PlainDevice})

NextClose == StartCmd \/ StopCmd \/ ReadyEvent \/ CloseCmd \/ NotFoundCmd

SpecClose == InitClose /\ [][NextClose]_vars

NotFound == ret'.code = "error" /\ ret'.msg = "device not found"

\* C29: close() on an existing session succeeds from Stopped, Capturing and Error:
\* capture is stopped, no buffer stays mapped, the descriptor is closed and the
\* session is removed, so that every later operation naming its id fails with
\* "device not found"; close() on an unknown id returns that error and changes no
\* session.
C29_CloseFromAnyState ==
    [][/\ (alive /\ ret'.cmd = "close" /\ ~NotFound) =>
             /\ ret'.code = "ok"
             /\ ~alive'
             /\ ~dev'.open /\ ~dev'.handler /\ ~dev'.streaming
             /\ v4l2c'.vbufs = {} /\ dev'.orphans = dev.orphans
       /\ ~alive => NotFound
       /\ NotFound => UNCHANGED <<v4l2c, dev, alive>>]_vars

----------------------------------------------------------------------------
(* Configuring a loopback device: v4l2 loopback device fourcc width height fps *)

\* memset(fcbuf, ' ', 4) and the copy of at most four characters of the argument
Fcbuf(arg) == [i \in 1..4 |-> IF i <= Len(arg) THEN arg[i] ELSE " "]

\* v4l2_fourcc(fcbuf[0], fcbuf[1], fcbuf[2], fcbuf[3])
FourccOf(arg) == v4l2_fourcc(Fcbuf(arg)[1], Fcbuf(arg)[2], Fcbuf(arg)[3], Fcbuf(arg)[4])

\* i = 7; while (i > 0) { --i; if (fourcc == FormatsLoop[i]) break; }: the value of i
\* after the loop, the array being indexed from 0
RECURSIVE SearchLoopFormat(_, _)
SearchLoopFormat(fourcc, i) ==
    IF ~(i > 0) THEN i
    ELSE IF fourcc = FormatsLoop[(i - 1) + 1] THEN i - 1
    ELSE SearchLoopFormat(fourcc, i - 1)

\* the test that guards "unsupported fourcc"
Unsupported(i) == i < 0

\* sscanf(arg, "%d/%d", fps + 0, fps + 1) on fps = {0, 1}, and the test that follows
ScanFps(s) ==
    LET a == ScanInt(s, 1)
        b == ScanInt(s, a.next + 1)
        two == a.ok /\ a.next <= Len(s) /\ s[a.next] = "/" /\ b.ok
        num == IF a.ok THEN a.val ELSE 0
        den == IF two THEN b.val ELSE 1
    IN  [ok |-> a.ok /\ den > 0 /\ num > 0, num |-> num, den |-> den]

\* what the opens and ioctls of one call answer: all succeed, or one of them fails
LoopAnswers ==
    {[open1 |-> x # "open1", gfmt |-> x # "gfmt", open2 |-> x # "open2",
      sfmt |-> x # "sfmt", gparm |-> x # "gparm"] :
        x \in {"none", "open1", "gfmt", "open2", "sfmt", "gparm"}}

Failed(c, msg, log) == [d |-> c, code |-> "error", msg |-> msg, ops |-> log]

\* the configuring branch of CMD_loopback on a loop device; the driver takes the
\* format, size and rate it is given when the ioctl succeeds
Loopback(d, fourcc, width, height, fps, k) ==
    LET w == Tcl_GetIntFromObj(width)
        h == Tcl_GetIntFromObj(height)
        f == ScanFps(fps)
        log1 == <<Op("open", 0), Op("G_FMT", 0)>>
        log2 == log1 \o <<Op("S_CTRL", 0), Op("close", 0), Op("open", 0)>>
        log3 == log2 \o <<Op("S_FMT", FourccOf(fourcc))>>
        set == [d EXCEPT !.format = FourccOf(fourcc), !.width = w.val, !.height = h.val]
        log4 == log3 \o <<Op("G_PARM", 0)>>
                     \o (IF k.gparm THEN <<Op("S_PARM", 0)>> ELSE <<>>)
                     \o <<Op("S_CTRL", 1), Op("close", 0)>>
    IN  IF ~w.ok \/ ~h.ok THEN Failed(d, "expected integer", <<>>)
        ELSE IF Unsupported(SearchLoopFormat(FourccOf(fourcc), Len(FormatsLoop)))
        THEN Failed(d, "unsupported fourcc", <<>>)
        ELSE IF ~f.ok THEN Failed(d, "invalid frame rate parameter", <<>>)
        ELSE IF ~k.open1 THEN Failed(d, "error while opening", <<Op("open", 0)>>)
        ELSE IF ~k.gfmt THEN Failed(d, "error querying format", log1 \o <<Op("close", 0)>>)
        ELSE IF ~k.open2 THEN Failed(d, "error while opening", log2)
        ELSE IF ~k.sfmt THEN Failed(d, "error setting format", log3 \o <<Op("close", 0)>>)
        ELSE [d |-> IF k.gparm THEN [set EXCEPT !.num = f.num, !.den = f.den] ELSE set,
              code |-> "ok", msg |-> "", ops |-> log4]

\* fourcc arguments: the formats of the loopback catalog, formats that are not in it
\* and strings shorter or longer than four characters
FourccArgs ==
    {<<"R", "G", "B", "4">>, <<"Y", "U", "Y", "V">>, <<"G", "R", "E", "Y">>,
     <<"N", "V", "1", "2">>, <<"M", "J", "P", "G">>, <<"Y", "U", "Y", "V", "2">>, <<"Y">>}

SizeArgs == {<<"4">>, <<"x">>}

FpsArgs == {<<"1", "5">>, <<"5", "/", "2">>, <<"5", "/", "0">>, <<"x">>}

\* a loop device as its driver sets it up
InitLoopback ==
    /\ dev \in {[format |-> f, width |-> 2, height |-> 2, num |-> 30, den |-> 1] :
                  f \in {V4L2_PIX_FMT_RGB32, V4L2_PIX_FMT_YUYV}}
    /\ v4l2c = [isLoopDev |-> TRUE]
    /\ kern = [driver |-> "v4l2loopback"]
    /\ ops = <<>>
    /\ ret = [cmd |-> "none", code |-> "ok", msg |-> "", fourcc |-> <<>>]
    /\ alive = FALSE

LoopbackCmd ==
    /\ \E fourcc \in FourccArgs, width \in SizeArgs, height \in SizeArgs,
          fps \in FpsArgs, k \in LoopAnswers :
          LET r == Loopback(dev, fourcc, width, height, fps, k)
          IN  /\ dev' = r.d
              /\ ops' = r.ops
              /\ ret' = [cmd |-> "loopback", code |-> r.code, msg |-> r.msg,
                         fourcc |-> fourcc]
    /\ UNCHANGED <<v4l2c, kern, alive>>

NextLoopback == LoopbackCmd

SpecLoopback == InitLoopback /\ [][NextLoopback]_vars

\* C30: the loopback command with a fourcc that is no entry of the loopback format
\* catalog fails with "unsupported fourcc" (or earlier, on a width or height that is
\* no integer), before the device is opened and with none of its settings changed.
C30_UnsupportedFourcc ==
    [][(ret'.cmd = "loopback" /\ FourccOf(ret'.fourcc) \notin Range(FormatsLoop)) =>
          /\ ret'.code = "error"
          /\ ret'.msg \in {"unsupported fourcc", "expected integer"}
          /\ ops' = <<>>
          /\ dev' = dev]_vars

----------------------------------------------------------------------------
(* The old and the extended control ioctls: vctrl->useOld *)

\* what an ioctl leaves in errno: "" when it succeeds
Errnos == {"", "EINVAL", "EIO"}

\* the controls of a device with two user-class integers, a camera-class integer and
\* a user-class 64 bit integer, none of them flagged
FallbackControls ==
    [name \in {"brightness", "contrast", "zoom-absolute", "pixel-rate"} |->
       CASE name = "brightness" -> [class |-> "user", type |-> "INTEGER", flags |-> {}]
         [] name = "contrast" -> [class |-> "user", type |-> "INTEGER", flags |-> {}]
         [] name = "zoom-absolute" -> [class |-> "camera", type |-> "INTEGER", flags |-> {}]
         [] name = "pixel-rate" -> [class |-> "user", type |-> "INTEGER64", flags |-> {}]]

FallbackOrder == <<"brightness", "contrast", "zoom-absolute", "pixel-rate">>

\* vctrl->useOld as InitControls sets it
UseOldAtInit(vctrl) ==
    IF vctrl.class = "camera" THEN 0
    ELSE IF vctrl.type # "INTEGER64" THEN -1 ELSE 0

IoctlOp(op, name, errno) == [op |-> op, id |-> name, errno |-> errno]

\* a retry rule that does not look at the flag
Retry_AnyFlag(useOld, errno) == errno = "EINVAL" /\ useOld <= 0

\* (errno == EINVAL) && (vctrl->useOld < 0)
Retry(useOld, errno) == errno = "EINVAL" /\ useOld < 0

\* the write of one control: the flag after it, the ioctls made and whether
\* SetControls goes on
SetControl(useOld, name, ext, old) ==
    IF useOld > 0
    THEN [useOld |-> useOld, ops |-> <<IoctlOp("S_CTRL", name, old)>>, ok |-> old = ""]
    ELSE IF ext = ""
    THEN [useOld |-> useOld, ops |-> <<IoctlOp("S_EXT_CTRLS", name, ext)>>, ok |-> TRUE]
    ELSE IF Retry(useOld, ext)
    THEN [useOld |-> IF old = "" THEN 1 ELSE useOld,
          ops |-> <<IoctlOp("S_EXT_CTRLS", name, ext), IoctlOp("S_CTRL", name, old)>>,
          ok |-> old = ""]
    ELSE [useOld |-> useOld, ops |-> <<IoctlOp("S_EXT_CTRLS", name, ext)>>, ok |-> FALSE]

\* the read of one control
GetControl(useOld, vctrl, name, ext, old) ==
    IF "WRITE_ONLY" \in vctrl.flags THEN [useOld |-> useOld, ops |-> <<>>]
    ELSE IF useOld > 0
    THEN [useOld |-> useOld, ops |-> <<IoctlOp("G_CTRL", name, old)>>]
    ELSE IF ext = ""
    THEN [useOld |-> useOld, ops |-> <<IoctlOp("G_EXT_CTRLS", name, ext)>>]
    ELSE IF Retry(useOld, ext)
    THEN [useOld |-> IF old = "" THEN 1 ELSE useOld,
          ops |-> <<IoctlOp("G_EXT_CTRLS", name, ext), IoctlOp("G_CTRL", name, old)>>]
    ELSE [useOld |-> useOld, ops |-> <<IoctlOp("G_EXT_CTRLS", name, ext)>>]

\* GetControls from control i of the walk on; ext: what the extended read leaves in
\* errno, oldFails: the controls whose old read fails
RECURSIVE GetAll(_, _, _, _, _)
GetAll(useOld, log, i, ext, oldFails) ==
    IF i > Len(FallbackOrder) THEN [useOld |-> useOld, ops |-> log]
    ELSE LET name == FallbackOrder[i]
             r == GetControl(useOld[name], FallbackControls[name], name, ext,
                             IF name \in oldFails THEN "EIO" ELSE "")
         IN  GetAll([useOld EXCEPT ![name] = r.useOld], log \o r.ops, i + 1, ext, oldFails)

InitFallback ==
    /\ v4l2c = [useOld |-> [name \in DOMAIN FallbackControls |->
                              UseOldAtInit(FallbackControls[name])]]
    /\ dev = [open |-> TRUE]
    /\ kern = [driver |-> "uvcvideo"]
    /\ ops = <<>>
    /\ ret = [cmd |-> "open", code |-> "ok"]
    /\ alive = TRUE

\* parameters without arguments
ReadAllCmd ==
    /\ \E ext \in Errnos, oldFails \in SUBSET DOMAIN FallbackControls :
          LET g == GetAll(v4l2c.useOld, <<>>, 1, ext, oldFails)
          IN  /\ v4l2c' = [v4l2c EXCEPT !.useOld = g.useOld]
              /\ ops' = g.ops
              /\ ret' = [cmd |-> "parameters", code |-> "ok"]
    /\ UNCHANGED <<dev, kern, alive>>

\* parameters name value: the write, and the read of all controls if it succeeds
WriteOneCmd ==
    /\ \E name \in DOMAIN FallbackControls, ext \in Errnos, old \in {"", "EIO"},
          gext \in Errnos, oldFails \in SUBSET DOMAIN FallbackControls :
          LET s == SetControl(v4l2c.useOld[name], name, ext, old)
              after == [v4l2c.useOld EXCEPT ![name] = s.useOld]
              g == GetAll(after, s.ops, 1, gext, oldFails)
          IN  IF s.ok
              THEN /\ v4l2c' = [v4l2c EXCEPT !.useOld = g.useOld]
                   /\ ops' = g.ops
                   /\ ret' = [cmd |-> "parameters", code |-> "ok"]
              ELSE /\ v4l2c' = [v4l2c EXCEPT !.useOld = after]
                   /\ ops' = s.ops
                   /\ ret' = [cmd |-> "parameters", code |-> "error"]
    /\ UNCHANGED <<dev, kern, alive>>

NextFallback == ReadAllCmd \/ WriteOneCmd

SpecFallback == InitFallback /\ [][NextFallback]_vars

Legacy(o) == o.op \in {"G_CTRL", "S_CTRL"}

\* an old ioctl on control name has succeeded among the first i ioctls of log
LegacyDone(log, i, name) ==
    \E j \in 1..i : Legacy(log[j]) /\ log[j].id = name /\ log[j].errno = ""

\* C31: the old ioctl is used on a control only when its flag is positive, or right
\* after the extended ioctl on it failed with EINVAL while its flag was negative; once
\* an old ioctl has succeeded the flag is positive and only old ioctls follow; a
\* control with flag 0 sees no old ioctl, and a positive flag stays positive.
C31_LegacyFallback ==
    [][\A name \in DOMAIN FallbackControls :
         LET before == v4l2c.useOld[name]
             mine(i) == ops'[i].id = name
             known(i) == before > 0 \/ LegacyDone(ops', i, name)
         IN  /\ \A i \in 1..Len(ops') :
                   (mine(i) /\ Legacy(ops'[i])) =>
                      \/ known(i - 1)
                      \/ /\ i > 1 /\ mine(i - 1) /\ ~Legacy(ops'[i - 1])
                         /\ ops'[i - 1].errno = "EINVAL" /\ before < 0
             /\ \A i \in 1..Len(ops') :
                   (mine(i) /\ ~Legacy(ops'[i])) => ~known(i - 1)
             /\ known(Len(ops')) <=> v4l2c'.useOld[name] > 0
             /\ before = 0 => v4l2c'.useOld[name] = 0
             /\ before = 0 => \A i \in 1..Len(ops') : mine(i) => ~Legacy(ops'[i])]_vars

\* the old read of brightness follows an extended read that failed with EINVAL, and
\* the camera-class control met EINVAL too
C31_Witness ==
    /\ ret.cmd = "parameters"
    /\ v4l2c.useOld["brightness"] = 1
    /\ \E i \in 1..Len(ops) :
          ops[i] = IoctlOp("G_CTRL", "brightness", "") /\ i > 1 /\ ops[i - 1].errno = "EINVAL"
    /\ \E i \in 1..Len(ops) : ops[i] = IoctlOp("G_EXT_CTRLS", "zoom-absolute", "EINVAL")

----------------------------------------------------------------------------
(* Menu controls: labels and wire indices *)

MaxMenu == 3

\* what VIDIOC_QUERYMENU leaves in the list for one index: a label, or "," for an
\* index that could not be queried
MenuEntries == {<<"a">>, <<"b">>, StrComma}

\* the labels a caller writes
MenuLabels == {<<"a">>, <<"b">>, <<"c">>, StrEmpty}

\* the menu controls InitControls can build: one entry per index minimum..maximum
MenuControls ==
    {[type |-> "MENU", minimum |-> m, maximum |-> m + Len(ds) - 1, flags |-> {},
      ds |-> ds] : m \in {0, 1}, ds \in ListsUpTo(MenuEntries, MaxMenu) \ {<<>>}}

\* the value GetControls reports for a menu control: GetZZString(p, xc.value)
MenuValue(vctrl, value) == GetZZString(vctrl.ds, value)

\* a menu control of an open session; the device holds the wire index minimum
InitMenu ==
    /\ kern \in {[menu |-> q] : q \in MenuControls}
    /\ v4l2c = [vctrl |-> kern.menu]
    /\ dev = [open |-> TRUE, value |-> kern.menu.minimum]
    /\ ops = <<>>
    /\ ret = [cmd |-> "open", label |-> StrEmpty, value |-> StrEmpty]
    /\ alive = TRUE

\* parameters name label: the write of the index found for the label, if there is
\* one, and the read of the control
SetMenuCmd ==
    /\ \E label \in MenuLabels :
          LET xc == ControlValue(v4l2c.vctrl, label)
              value == IF xc.ok THEN xc.value ELSE dev.value
          IN  /\ dev' = [dev EXCEPT !.value = value]
              /\ ops' = (IF xc.ok THEN <<Op("S_EXT_CTRLS", xc.value)>> ELSE <<>>)
                           \o <<Op("G_EXT_CTRLS", value)>>
              /\ ret' = [cmd |-> "parameters", label |-> label,
                         value |-> MenuValue(v4l2c.vctrl, value)]
    /\ UNCHANGED <<v4l2c, kern, alive>>

NextMenu == SetMenuCmd

SpecMenu == InitMenu /\ [][NextMenu]_vars

\* the labels of a menu: its entries that are no placeholders
LabelsOf(vctrl) == {GetZZString(vctrl.ds, k) : k \in 0..(Len(vctrl.ds) - 1)} \ {StrEmpty}

\* C32: a menu control set to one of its labels reads back as that label, whatever
\* its minimum and its placeholder entries.
C32_MenuRoundTrip ==
    [][(ret'.cmd = "parameters" /\ ret'.label \in LabelsOf(v4l2c.vctrl)) =>
          ret'.value = ret'.label]_vars

----------------------------------------------------------------------------
(* The choices of the frame-size control *)

FourccChars == {" ", "0", "1", "2", "3", "4", "B", "E", "G", "J", "M", "N", "P", "R",
                "U", "V", "Y"}

CharOf(code) == CHOOSE ch \in FourccChars : CharCode(ch) = code

\* trailing blanks cut: while (i && (buf[i - 1] == ' ')) --i;
RECURSIVE CutBlanks(_)
CutBlanks(s) ==
    IF Len(s) > 0 /\ s[Len(s)] = " " THEN CutBlanks(SubSeq(s, 1, Len(s) - 1)) ELSE s

\* fourcc_str: "" for format 0, else '@' and the characters of the format
fourcc_str(fmt) ==
    IF fmt = 0 THEN <<>>
    ELSE CutBlanks(<<"@", CharOf(fmt % 256), CharOf((fmt \div 256) % 256),
                     CharOf((fmt \div 65536) % 256), CharOf((fmt \div 16777216) % 256)>>)

\* the conversion %d of a number that is not negative
RECURSIVE DecStr(_)
DecStr(n) ==
    IF n < 10 THEN <<Digits[n + 1]>> ELSE DecStr(n \div 10) \o <<Digits[(n % 10) + 1]>>

\* sprintf(buffer, "%dx%d%s", width, height, fourcc_str(format, fcbuf))
SizeLabel(width, height, format) ==
    DecStr(width) \o <<"x">> \o DecStr(height) \o fourcc_str(format)

\* the entries of one format appended to the list, an entry already there left out
RECURSIVE AppendSizes(_, _, _)
AppendSizes(ds, sizes, i) ==
    IF i > Len(sizes) THEN ds
    ELSE LET buffer == SizeLabel(sizes[i].width, sizes[i].height, sizes[i].format)
         IN  AppendSizes(IF buffer \in Range(ds) THEN ds ELSE Append(ds, buffer),
                         sizes, i + 1)

\* the discrete sizes that VIDIOC_ENUM_FRAMESIZES reports for format f
SizesOf(k, f) == SelectSeq(k.sizes, LAMBDA s : s.format = f)

\* the list of the frame-size control for the catalog formats from k on
RECURSIVE EnumFrameSizes(_, _, _, _)
EnumFrameSizes(k, tryFmts, i, ds) ==
    IF i > Len(tryFmts) THEN ds
    ELSE EnumFrameSizes(k, tryFmts, i + 1, AppendSizes(ds, SizesOf(k, tryFmts[i]), 1))

\* the choices of frame-size for a session just opened: the sizes enumerated, or
\* the size and format of the session if there are none
FrameSizeValues(k, c) ==
    LET ds == EnumFrameSizes(k, IF c.isLoopDev THEN FormatsLoop ELSE FormatsNormal,
                             1, <<>>)
    IN  IF Len(ds) = 0 THEN <<SizeLabel(c.width, c.height, c.format)>> ELSE ds

FrameSize(w, h, f) == [width |-> w, height |-> h, format |-> f]

\* devices by the discrete frame sizes they enumerate: none, two sizes of one
\* format, and one size in two formats
FsizeDevices ==
    {[sizes |-> s] @@ PlainDevice :
        s \in {<<>>,
               <<FrameSize(640, 480, V4L2_PIX_FMT_YUYV),
                 FrameSize(320, 240, V4L2_PIX_FMT_YUYV)>>,
               <<FrameSize(640, 480, V4L2_PIX_FMT_YUYV),
                 FrameSize(640, 480, V4L2_PIX_FMT_GREY)>>}}

Str640x480YUYV == <<"6", "4", "0", "x", "4", "8", "0", "@", "Y", "U", "Y", "V">>
Str160x120 == <<"1", "6", "0", "x", "1", "2", "0">>

\* the sizes written, and what each asks for
FsizeAsked ==
    {[value |-> Str320x240, width |-> 320, height |-> 240, format |-> 0],
     [value |-> Str320x240 \o <<"@", "Y", "U", "Y", "V">>, width |-> 320, height |-> 240,
      format |-> V4L2_PIX_FMT_YUYV],
     [value |-> Str320x240 \o <<"@", "M", "J", "P", "G">>, width |-> 320, height |-> 240,
      format |-> V4L2_PIX_FMT_MJPEG],
     [value |-> Str640x480YUYV, width |-> 640, height |-> 480,
      format |-> V4L2_PIX_FMT_YUYV],
     [value |-> Str160x120, width |-> 160, height |-> 120, format |-> 0]}

FsizeLists == {<<<<"frame-size", a.value>>>> : a \in FsizeAsked}
              \cup {<<<<"frame-size", Str0x240>>>>}

FsizeCmd == ParametersWith(FsizeLists)

InitFsize == InitWith(FsizeDevices)

NextFsize == StartCmd \/ StopCmd \/ FsizeCmd \/ CloseCmd

SpecFsize == InitFsize /\ [][NextFsize]_vars

\* the choices the session advertises in frame-size-values: the list built when the
\* device was opened
Advertised == Range(FrameSizeValues(kern, [isLoopDev |-> kern.loop, width |-> 640,
                                         height |-> 480, format |-> 0]))

\* C33 as stated: a frame-size write of a well-formed size that is not among the
\* advertised choices changes neither width, height nor the requested format, and
\* reports no error.
C33_UnadvertisedIsNoOp ==
    [][(SizeWrite /\ \E a \in FsizeAsked : a.value = ret'.objv[1][2]
                  /\ ret'.objv[1][2] \notin Advertised) =>
          ret'.code = "ok" /\ SizeKept]_vars

\* C33 (amended): a frame-size write of a well-formed size is taken by a session that
\* is not capturing whether the size is among the advertised choices or not: width,
\* height and requested format become the ones written; a session that is capturing
\* keeps its own; no error is reported.
C33_SizeTakenAdvertisedOrNot ==
    [][\A a \in FsizeAsked :
          (SizeWrite /\ a.value = ret'.objv[1][2]) =>
             /\ ret'.code = "ok"
             /\ v4l2c.running > 0 => SizeKept
             /\ v4l2c.running <= 0 =>
                   /\ v4l2c'.width = a.width /\ v4l2c'.height = a.height
                   /\ v4l2c'.wantFormat = a.format]_vars

\* 160x120 was written to a stopped session of a device that advertises 640x480@YUYV
\* and 320x240@YUYV only, and is the size of the session
C33_Witness ==
    /\ ret.cmd = "parameters" /\ ret.code = "ok"
    /\ ret.objv = <<<<"frame-size", Str160x120>>>>
    /\ Advertised = {Str640x480YUYV, Str320x240 \o <<"@", "Y", "U", "Y", "V">>}
    /\ v4l2c.running = 0
    /\ v4l2c.width = 160 /\ v4l2c.height = 120 /\ v4l2c.wantFormat = 0

----------------------------------------------------------------------------
(* Channel masks: v4l2 image with a single channel or a blend of channels *)

RGBFormats == {V4L2_PIX_FMT_RGB24, V4L2_PIX_FMT_BGR24, V4L2_PIX_FMT_RGB32,
               V4L2_PIX_FMT_BGR32}

\* the bytes of a pixel and the offsets of red, green and blue in it
MaskLayout(format) ==
    CASE format = V4L2_PIX_FMT_RGB32 -> [pixelSize |-> 4, offset |-> <<0, 1, 2>>]
      [] format = V4L2_PIX_FMT_BGR32 -> [pixelSize |-> 4, offset |-> <<2, 1, 0>>]
      [] format = V4L2_PIX_FMT_BGR24 -> [pixelSize |-> 3, offset |-> <<2, 1, 0>>]
      [] OTHER -> [pixelSize |-> 3, offset |-> <<0, 1, 2>>]

\* switch (flags & 0x07): the channels read, blue first, and their weights
MaskChannels(flags) ==
    CASE flags = 1 -> [ch |-> <<3>>, w |-> <<1000>>]
      [] flags = 2 -> [ch |-> <<2>>, w |-> <<1000>>]
      [] flags = 4 -> [ch |-> <<1>>, w |-> <<1000>>]
      [] flags = 3 -> [ch |-> <<3, 2>>, w |-> <<162, 837>>]
      [] flags = 5 -> [ch |-> <<3, 1>>, w |-> <<276, 723>>]
      [] flags = 6 -> [ch |-> <<2, 1>>, w |-> <<662, 337>>]
      [] flags = 7 -> [ch |-> <<3, 2, 1>>, w |-> <<114, 587, 299>>]

RECURSIVE WeightedSum(_, _, _)
WeightedSum(w, bytes, i) ==
    IF i > Len(w) THEN 0 ELSE w[i] * bytes[i] + WeightedSum(w, bytes, i + 1)

\* one byte of the result: the addresses read and the value stored
MaskByte(data, addrs, w) ==
    [reads |-> addrs,
     value |-> IF \A i \in 1..Len(addrs) : addrs[i] \in DOMAIN data
               THEN (WeightedSum(w, [i \in 1..Len(addrs) |-> data[addrs[i]]], 1)
                        \div 1000) % 256
               ELSE -1]

\* rows that start pitch bytes apart
MaskRows(data, width, height, pixelSize, offset, flags, pitch) ==
    LET m == MaskChannels(flags)
    IN  [y \in 1..height |->
           [x \in 1..width |->
              MaskByte(data,
                       [i \in 1..Len(m.ch) |->
                          offset[m.ch[i]] + pitch * (y - 1) + pixelSize * (x - 1)],
                       m.w)]]

\* the mask applied to the block of a photo image: src0 + block.pitch * y
PhotoMask(data, c, flags) ==
    LET l == MaskLayout(c.format)
    IN  MaskRows(data, c.width, c.height, l.pixelSize, l.offset, flags,
                 c.width * l.pixelSize)

\* the mask applied where no photo image is given: src0 + v4l2c->width * y
RawMask(data, c, flags) ==
    LET l == MaskLayout(c.format)
    IN  MaskRows(data, c.width, c.height, l.pixelSize, l.offset, flags, c.width)

\* frames whose bytes differ from their neighbours; addresses count from 0
MaskFrames(size) ==
    {[a \in 0..(size - 1) |-> (37 * a + 11) % 256],
     [a \in 0..(size - 1) |-> (201 * a + 5) % 256]}

\* a session that holds a captured frame of an RGB format
InitMask ==
    /\ v4l2c \in {[format |-> f, width |-> w, height |-> h] :
                    f \in RGBFormats, w \in 1..MaxSide, h \in 1..MaxSide}
    /\ kern \in {[data |-> d] :
                    d \in MaskFrames(v4l2c.width * v4l2c.height
                                       * MaskLayout(v4l2c.format).pixelSize)}
    /\ dev = [open |-> TRUE]
    /\ ops = <<>>
    /\ ret = [cmd |-> "start", flags |-> 0, photo |-> FALSE, image |-> <<>>]
    /\ alive = TRUE

\* v4l2 image devid with a mask
ImageMaskCmd ==
    /\ \E flags \in 1..7 :
          ret' = [cmd |-> "image", flags |-> flags, photo |-> FALSE,
                  image |-> RawMask(kern.data, v4l2c, flags)]
    /\ UNCHANGED <<v4l2c, dev, kern, ops, alive>>

\* v4l2 image devid photo with a mask, the photo image neither turned nor mirrored
PhotoMaskCmd ==
    /\ \E flags \in 1..7 :
          ret' = [cmd |-> "image", flags |-> flags, photo |-> TRUE,
                  image |-> PhotoMask(kern.data, v4l2c, flags)]
    /\ UNCHANGED <<v4l2c, dev, kern, ops, alive>>

NextMask == ImageMaskCmd \/ PhotoMaskCmd

SpecMask == InitMask /\ [][NextMask]_vars

\* channel ch (1 red, 2 green, 3 blue) of pixel (x, y) of the frame
ChannelOf(x, y, ch) ==
    kern.data[(y * v4l2c.width + x) * MaskLayout(v4l2c.format).pixelSize
                 + MaskLayout(v4l2c.format).offset[ch]]

\* the selected channel, or the blend of the selected channels, of pixel (x, y)
Selected(flags, x, y) ==
    LET m == MaskChannels(flags)
    IN  (WeightedSum(m.w, [i \in 1..Len(m.ch) |-> ChannelOf(x, y, m.ch[i])], 1)
            \div 1000) % 256

\* C34: the image that v4l2 image returns for a mask without a photo image has, at
\* (x, y) of every row y, the selected channel or blend of pixel (x, y) of the frame;
\* it is the image the photo path computes for the same frame and mask, and no byte
\* outside the frame is read.
C34_MaskedImage ==
    (ret.cmd = "image" /\ ~ret.photo) =>
        /\ \A y \in 1..v4l2c.height, x \in 1..v4l2c.width :
              /\ ret.image[y][x].value = Selected(ret.flags, x - 1, y - 1)
              /\ \A i \in 1..Len(ret.image[y][x].reads) :
                    ret.image[y][x].reads[i] \in DOMAIN kern.data
        /\ ret.image = PhotoMask(kern.data, v4l2c, ret.flags)

----------------------------------------------------------------------------
(* The frame counters *)

Captured(c) == c.counters[1]
Consumed(c) == c.counters[2]

\* C35: frames-consumed never exceeds frames-captured; frames-captured grows by one
\* with each buffer dequeued and not otherwise; frames-consumed grows by at most one
\* per captured frame however often getImage succeeds on it, and not at all when
\* getImage finds no ready buffer or fails.
C35_ConsumedAtMostCaptured ==
    [][/\ Consumed(v4l2c') <= Captured(v4l2c')
       /\ (v4l2c'.bufrdy >= 0 /\ v4l2c'.bufdone = 0) => Consumed(v4l2c') < Captured(v4l2c')
       /\ ret'.cmd = "ready" =>
             /\ Captured(v4l2c') = Captured(v4l2c)
                                     + (IF "DQBUF" \in OpNames(ops') THEN 1 ELSE 0)
             /\ Consumed(v4l2c') \in {Consumed(v4l2c), Consumed(v4l2c) + 1}
             /\ "DQBUF" \notin OpNames(ops') => Consumed(v4l2c') = Consumed(v4l2c)
       /\ ret'.cmd = "image" =>
             /\ Captured(v4l2c') = Captured(v4l2c)
             /\ Consumed(v4l2c') = Consumed(v4l2c)
                   + (IF ret'.code = "ok" /\ v4l2c.bufrdy >= 0 /\ v4l2c.bufdone = 0
                      THEN 1 ELSE 0)
             /\ v4l2c.bufrdy >= 0 /\ ret'.code = "ok" => v4l2c'.bufdone = 1]_vars

\* getImage has succeeded on the second frame of a capture, which is marked done:
\* both frames are counted as consumed, each once
C35_Witness ==
    /\ ret.cmd = "image" /\ ret.code = "ok"
    /\ v4l2c.bufrdy >= 0 /\ v4l2c.bufdone = 1
    /\ v4l2c.counters = <<2, 2>>

----------------------------------------------------------------------------
(* Callbacks that close the session *)

CloseCallbacks == {"ok", "error", "close", "close_error", "close_error_running"}

\* the file handler with a callback that may close the session it is called for
ReadyCloseEvent ==
    /\ alive
    /\ dev.handler
    /\ \E dq \in {"ok", "again", "fail"}, qbuf \in BOOLEAN, cb \in CloseCallbacks :
       \E index \in IF dq = "ok" /\ v4l2c.counters[1] < MaxFrames THEN dev.queued ELSE {0} :
          /\ dq = "ok" => index \in dev.queued /\ v4l2c.counters[1] < MaxFrames
          /\ LET w == BufferReady(Now, [dq |-> dq, index |-> index, qbuf |-> qbuf,
                                        cb |-> cb])
             IN  /\ Becomes(w)
                 /\ alive' = w.d.open
                 /\ ret' = [cmd |-> "ready", code |-> "ok", msg |-> "", cb |-> cb,
                            called |-> OpNames(w.ops) \cap {"callback_frame",
                                                            "callback_error"} # {}]
    /\ UNCHANGED kern

InitCbClose == InitWith({PlainDevice})

NextCbClose == StartCmd \/ StopCmd \/ ReadyCloseEvent

SpecCbClose == InitCbClose /\ [][NextCbClose]_vars

\* the operations of log after its last close of the descriptor
AfterClose(log) ==
    LET last == CHOOSE i \in 1..Len(log) :
                   log[i].op = "close" /\ \A j \in (i + 1)..Len(log) : log[j].op # "close"
    IN  SubSeq(log, last + 1, Len(log))

\* C36: when the callback of a ready event has closed its session, the handler does
\* nothing with the session once the callback has returned, whether the callback
\* returned success or an error.
C36_NoAccessAfterClose ==
    [][(ret'.cmd = "ready" /\ ret'.called
          /\ ret'.cb \in {"close", "close_error", "close_error_running"}) =>
          /\ ~alive'
          /\ AfterClose(ops') = <<>>]_vars

----------------------------------------------------------------------------
(* Callbacks that fail *)

\* C37: when the callback returns an error for a frame delivered while Capturing,
\* the handler stops the capture: the session is Stopped, not in Error, its buffers
\* are unmapped and the file handler is deleted; when the callback returns an error
\* for the "error" marker, the session stays in Error.
C37_FailedCallback ==
    [][(ret'.cmd = "ready" /\ ret'.cb = "error") =>
          /\ "callback_frame" \in OpNames(ops') =>
                /\ Capturing
                /\ v4l2c'.running = 0
                /\ v4l2c'.vbufs = {} /\ dev'.orphans = dev.orphans
                /\ Args(ops', "MUNMAP") = [j \in 1..v4l2c.nvbufs |-> j - 1]
                /\ Count(ops', "DeleteFileHandler") = 1
                /\ ~dev'.handler /\ ~dev'.streaming
          /\ "callback_error" \in OpNames(ops') => v4l2c'.running = -1]_vars

\* the callback has failed on the second frame of a capture, which is stopped
C37_Witness ==
    /\ ret.cmd = "ready" /\ ret.cb = "error"
    /\ "callback_frame" \in OpNames(ops)
    /\ v4l2c.counters[1] = 2
    /\ v4l2c.running = 0 /\ v4l2c.vbufs = {} /\ ~dev.handler

\* the callback has failed on the "error" marker after a requeue failure
C37_WitnessMarker ==
    /\ ret.cmd = "ready" /\ ret.cb = "error"
    /\ "callback_error" \in OpNames(ops) /\ "QBUF" \in OpNames(ops)
    /\ v4l2c.running = -1

----------------------------------------------------------------------------
(* Termination of the enumeration *)

\* C38: the enumeration of the controls returns for every device with finitely many
\* controls, whether a control of the camera class is disabled, of an unsupported
\* kind or named frame-size or frame-rate: the open command comes back with a
\* session.
C38_EnumerationReturns ==
    ret.cmd = "open" => (ret.code = "ok" /\ alive)

----------------------------------------------------------------------------
(* The format of a capture *)

\* the catalog of the session
ActiveCatalog == Range(IF v4l2c.isLoopDev THEN FormatsLoop ELSE FormatsNormal)

\* C39: after every successful start() the pixel format of the session is a member
\* of the catalog of the session, whichever format the kernel writes back in its
\* answer to VIDIOC_S_FMT, on the path of the requested format and on the path that
\* iterates over the catalog.
C39_FormatInCatalog ==
    [][(StartStep /\ ret'.code = "ok") => v4l2c'.format \in ActiveCatalog]_vars

====
